---------------------------- MODULE Spec2Model ----------------------------
(***************************************************************************)
(* Model of the routing core of Kartagia/rest-server:                      *)
(*   - path.mjs: escapeRegExp, createPathParamValueFunction, createPath,   *)
(*     parsePath, and RegExp.prototype.exec on the sticky matcher that     *)
(*     createPath compiles;                                                *)
(*   - regexp_tools.mjs: addFlag, the segment comparator and the Service   *)
(*     registry (addDataSource, getServicePaths, findServicePath,          *)
(*     getResourceByPath), RegExpBuilder and createRegExpGroupStart;       *)
(*   - the data source module: DataSource construction and its default     *)
(*     retrieveAll, filters and mutators, and MemoryDataSource.            *)
(*                                                                         *)
(* JavaScript strings are sequences of one-character strings.  A thrown    *)
(* exception is an outcome record with status "threw".                     *)
(***************************************************************************)
EXTENDS Integers, Sequences, FiniteSets, TLC

VARIABLES
    basePath,       \* Service.#basePath
    dataSources,    \* Service.#dataSources: Map in insertion order
    keyFunctions,   \* Service.#keyFunctions: Map in insertion order
    last,           \* outcome of the last Service call
    pathResult,     \* outcome of the last createPath / parsePath call
    execResult,     \* outcome of the last regex.exec on pathResult's matcher
    comparison,     \* arguments and results of the last comparator calls
    datasource,     \* a DataSource, its backing entries and its call in progress
    constructed,    \* outcome of new DataSource(source) and of a call on it
    memory,         \* a MemoryDataSource, its entries and its calls in progress
    builder,        \* a RegExpBuilder: its segments and group counts
    flagged,        \* arguments and outcome of the last addFlag call
    pathModule      \* path.mjs module counters and the last compiled matcher

vars ==
    <<basePath, dataSources, keyFunctions, last, pathResult, execResult,
      comparison, datasource, constructed, memory, builder, flagged, pathModule>>

serviceVars == <<basePath, dataSources, keyFunctions, last>>

pathVars == <<pathResult, execResult>>

comparisonVars == <<comparison>>

sourceVars == <<datasource>>

constructVars == <<constructed>>

memoryVars == <<memory>>

builderVars == <<builder>>

flagVars == <<flagged>>

compileVars == <<pathModule>>

utilityVars == <<constructVars, memoryVars, builderVars, flagVars, compileVars>>

(***************************************************************************)
(* Bounds of the model.                                                    *)
(***************************************************************************)
MaxRegistered == 2

(***************************************************************************)
(* Strings.                                                                *)
(***************************************************************************)
\* The characters the model's strings use, in ascending UTF-16 code order.
Alphabet ==
    <<"*", "/", "X", "a", "d", "e", "g", "h", "i", "m", "n", "o", "p", "r", "s",
      "t", "u">>

CharCode(c) == CHOOSE i \in 1..Len(Alphabet) : Alphabet[i] = c

sTest == <<"t", "e", "s", "t">>
sRest == <<"r", "e", "s", "t">>
sOther == <<"o", "t", "h", "e", "r">>
sGenerate == <<"g", "e", "n", "e", "r", "a", "t", "e">>
sUsers == <<"u", "s", "e", "r", "s">>
sAdmin == <<"a", "d", "m", "i", "n">>
sApi == <<"a", "p", "i">>
sStar == <<"a", "*">>

RECURSIVE Flatten(_)
\* Array.prototype.join("") / String.prototype.concat over a list of strings.
Flatten(ss) == IF ss = <<>> THEN <<>> ELSE Head(ss) \o Flatten(Tail(ss))

\* "/" + components.join("/")
RECURSIVE RenderComponents(_)
RenderComponents(cs) ==
    IF cs = <<>> THEN <<>> ELSE <<"/">> \o Head(cs) \o RenderComponents(Tail(cs))

RECURSIVE StrLess(_, _)
\* The < of two JavaScript strings: lexicographic by code unit.
StrLess(a, b) ==
    IF b = <<>> THEN FALSE
    ELSE IF a = <<>> THEN TRUE
    ELSE IF Head(a) # Head(b) THEN CharCode(Head(a)) < CharCode(Head(b))
    ELSE StrLess(Tail(a), Tail(b))

(***************************************************************************)
(* Path segments (path.mjs, PathSegmentTypes).  One record shape for the   *)
(* three kinds; `undefined` is what indexing past the end of an array      *)
(* yields.                                                                 *)
(***************************************************************************)
Lit(text) ==
    [kind |-> "literal", text |-> text, type |-> "", paramName |-> "",
     parser |-> "", parts |-> <<>>]

\* {type, paramName, parser: (str) => str, toString}
Par(type, name) ==
    [kind |-> "parameter", text |-> <<>>, type |-> type, paramName |-> name,
     parser |-> "identity", parts |-> <<>>]

\* A parameter descriptor without a parser function.
ParNoParser(type, name) ==
    [kind |-> "parameter", text |-> <<>>, type |-> type, paramName |-> name,
     parser |-> "", parts |-> <<>>]

Mix(parts) ==
    [kind |-> "mixed", text |-> <<>>, type |-> "", paramName |-> "",
     parser |-> "", parts |-> parts]

UndefinedSegment ==
    [kind |-> "undefined", text |-> <<>>, type |-> "", paramName |-> "",
     parser |-> "", parts |-> <<>>]

\* array[i] with a 1-based i: undefined past the end.
At(list, i) == IF i \in 1..Len(list) THEN list[i] ELSE UndefinedSegment

(***************************************************************************)
(* Regular expression sources.  A source is a sequence of tokens: single   *)
(* characters, the fragment (?<name>[^\/]+?) and the fragment \k<name>.    *)
(***************************************************************************)
Ch(c) == [t |-> "char", c |-> c, name |-> ""]

GroupToken(name) == [t |-> "group", c |-> "", name |-> name]

BackrefToken(name) == [t |-> "backref", c |-> "", name |-> name]

\* The character class of escapeRegExp: . [ ( ) + ? * - \ / ]
EscapedChars == {".", "[", "(", ")", "+", "?", "*", "-", "\\", "/", "]"}

RECURSIVE escapeRegExp(_)
escapeRegExp(literal) ==
    IF literal = <<>> THEN <<>>
    ELSE (IF Head(literal) \in EscapedChars
          THEN <<Ch("\\"), Ch(Head(literal))>>
          ELSE <<Ch(Head(literal))>>) \o escapeRegExp(Tail(literal))

(***************************************************************************)
(* Flags (regexp_tools.mjs).                                               *)
(***************************************************************************)
allFlags == <<"d", "g", "i", "m", "s", "u", "v", "y">>

InStr(str, c) == \E i \in 1..Len(str) : str[i] = c

hasFlag(flags, flag) == \A i \in 1..Len(flag) : InStr(flags, flag[i])

validFlag(flag) == Len(flag) = 1 /\ hasFlag(allFlags, flag)

FlagsOk(value) == [threw |-> FALSE, error |-> "", value |-> value]

FlagsThrow(error) == [threw |-> TRUE, error |-> error, value |-> <<>>]

RECURSIVE addFlagReduce(_, _, _)
\* The reduce of addFlag over the added flags; `flags` is the initial string.
addFlagReduce(flags, result, added) ==
    IF added = <<>> THEN FlagsOk(result)
    ELSE LET flag == Head(added) IN
         IF ~validFlag(<<flag>>) THEN FlagsThrow("RangeError")
         ELSE IF flag = "u" /\ hasFlag(flags, <<"v">>) THEN FlagsThrow("SyntaxError")
         ELSE IF flag = "v" /\ hasFlag(flags, <<"u">>) THEN FlagsThrow("SyntaxError")
         ELSE addFlagReduce(flags,
                            IF hasFlag(result, <<flag>>) THEN result
                            ELSE Append(result, flag),
                            Tail(added))

addFlag(flags, addedFlags) ==
    IF Len(flags) > 0 /\ ~(\A i \in 1..Len(flags) : validFlag(<<flags[i]>>))
    THEN FlagsThrow("RangeError")
    ELSE IF Len(addedFlags) = 0 THEN FlagsOk(flags)
    ELSE addFlagReduce(flags, flags, addedFlags)


(***************************************************************************)
(* RegExp: construction from a source and exec with the sticky flag.       *)
(* Literal texts of the model hold no character that is a pattern syntax   *)
(* character left unescaped by escapeRegExp (^ $ { } |), and every group   *)
(* name is a valid identifier.                                             *)
(***************************************************************************)
ChrNode(c) == [op |-> "chr", c |-> c, name |-> ""]

GroupNode(name) == [op |-> "group", c |-> "", name |-> name]

BackrefNode(name) == [op |-> "backref", c |-> "", name |-> name]

RECURSIVE ParseSource(_)
\* The pattern a source denotes: \x is the character x, (?<n>[^\/]+?) a lazy
\* named group of one or more non-slash characters, \k<n> a back-reference.
ParseSource(source) ==
    IF source = <<>> THEN <<>>
    ELSE LET tok == Head(source) IN
         IF tok.t = "group" THEN <<GroupNode(tok.name)>> \o ParseSource(Tail(source))
         ELSE IF tok.t = "backref"
              THEN <<BackrefNode(tok.name)>> \o ParseSource(Tail(source))
         ELSE IF tok.c = "\\" /\ Len(source) >= 2 /\ source[2].t = "char"
              THEN <<ChrNode(source[2].c)>> \o ParseSource(Tail(Tail(source)))
         ELSE <<ChrNode(tok.c)>> \o ParseSource(Tail(source))

GroupNames(source) == {source[i].name : i \in {j \in 1..Len(source) : source[j].t = "group"}}

\* new RegExp(source) throws a SyntaxError: a group name declared twice, a
\* named back-reference without its group, or a lone trailing backslash.
RECURSIVE EndsInLoneBackslash(_)
EndsInLoneBackslash(source) ==
    IF source = <<>> THEN FALSE
    ELSE IF Head(source).t = "char" /\ Head(source).c = "\\"
         THEN (Len(source) = 1 \/ source[2].t # "char"
               \/ EndsInLoneBackslash(Tail(Tail(source))))
         ELSE EndsInLoneBackslash(Tail(source))

InvalidSource(source) ==
    \/ \E i, j \in 1..Len(source) :
          i # j /\ source[i].t = "group" /\ source[j].t = "group"
          /\ source[i].name = source[j].name
    \/ \E i \in 1..Len(source) :
          source[i].t = "backref" /\ source[i].name \notin GroupNames(source)
    \/ EndsInLoneBackslash(source)

NewRegExp(source, flags) == [source |-> source, flags |-> flags, lastIndex |-> 0]

NoGroups == [n \in {} |-> <<>>]

NoMatch == [ok |-> FALSE, index |-> 0, end |-> 0, text |-> <<>>, groups |-> NoGroups]

StartsWith(input, pos, str) ==
    /\ pos + Len(str) - 1 <= Len(input)
    /\ \A k \in 1..Len(str) : input[pos + k - 1] = str[k]

RECURSIVE MatchNodes(_, _, _, _, _)
RECURSIVE MatchLazyGroup(_, _, _, _, _, _)
\* The backtracking matcher: nodes[i..] against input from the 1-based
\* position pos, with the groups captured so far.
MatchNodes(nodes, i, input, pos, groups) ==
    IF i > Len(nodes)
    THEN [ok |-> TRUE, index |-> 0, end |-> pos - 1, text |-> <<>>, groups |-> groups]
    ELSE LET node == nodes[i] IN
         IF node.op = "chr"
         THEN IF pos <= Len(input) /\ input[pos] = node.c
              THEN MatchNodes(nodes, i + 1, input, pos + 1, groups)
              ELSE NoMatch
         ELSE IF node.op = "group"
         THEN MatchLazyGroup(nodes, i, input, pos, groups, 1)
         ELSE \* a back-reference to a group that has not captured matches ""
              LET captured == IF node.name \in DOMAIN groups
                              THEN groups[node.name] ELSE <<>> IN
              IF StartsWith(input, pos, captured)
              THEN MatchNodes(nodes, i + 1, input, pos + Len(captured), groups)
              ELSE NoMatch

\* [^\/]+? : the shortest run of k >= 1 non-slash characters that lets the
\* rest of the pattern match.
MatchLazyGroup(nodes, i, input, pos, groups, k) ==
    IF pos + k - 1 > Len(input) \/ input[pos + k - 1] = "/"
    THEN NoMatch
    ELSE LET captured == SubSeq(input, pos, pos + k - 1)
             rest == MatchNodes(nodes, i + 1, input, pos + k,
                                (nodes[i].name :> captured) @@ groups) IN
         IF rest.ok THEN rest
         ELSE MatchLazyGroup(nodes, i, input, pos, groups, k + 1)

\* RegExp.prototype.exec of a sticky expression: one attempt, at lastIndex.
\* Returns the match (null: ok = FALSE) and the expression's new lastIndex.
RegExpExec(regex, input) ==
    LET m == IF regex.lastIndex > Len(input) THEN NoMatch
             ELSE MatchNodes(ParseSource(regex.source), 1, input,
                             regex.lastIndex + 1, NoGroups) IN
    IF m.ok
    THEN [match |-> [m EXCEPT !.index = regex.lastIndex,
                              !.text = SubSeq(input, regex.lastIndex + 1, m.end)],
          lastIndex |-> m.end]
    ELSE [match |-> NoMatch, lastIndex |-> 0]

(***************************************************************************)
(* Path parameters (path.mjs).                                             *)
(***************************************************************************)
JsUndefined == [type |-> "undefined", str |-> <<>>, list |-> <<>>]

JsString(s) == [type |-> "string", str |-> s, list |-> <<>>]

JsArray(l) == [type |-> "array", str |-> <<>>, list |-> l]

\* The parser (str) => str of the segment descriptors.
ApplyParser(parser, str) == JsString(str)

\* The closure createPathParamValueFunction returns.
createPathParamValueFunction(paramName, paramParser) ==
    [paramName |-> paramName, parser |-> paramParser]

\* Calling that closure on a match (null when match.ok is FALSE).
ApplyValueFunction(fn, match) ==
    IF match.ok /\ fn.paramName \in DOMAIN match.groups
       /\ match.groups[fn.paramName] # <<>>
    THEN ApplyParser(fn.parser, match.groups[fn.paramName])
    ELSE JsUndefined

(***************************************************************************)
(* createPath (path.mjs).                                                  *)
(***************************************************************************)
\* Names every object inherits from Object.prototype: result.parameters is
\* a plain {}, so result.parameters[name] is truthy for them from the start.
ObjectPrototypeNames == {"constructor", "toString", "valueOf", "hasOwnProperty"}

\* The value of a property that an object does not have.
Undefined == "<undefined>"

\* result.parameters[name] is truthy.
HasParameter(parameters, name) ==
    name \in DOMAIN parameters \/ name \in ObjectPrototypeNames

\* result.parameters[name].type: the entry is a function (the closure of
\* createPathParamValueFunction, or an inherited method), which has no type.
ParameterEntryType(parameters, name) == Undefined

\* segment.type and segment.paramName of an element of a mixed segment.
PropType(part) == IF part.kind = "parameter" THEN part.type ELSE Undefined

PropParamName(part) == IF part.kind = "parameter" THEN part.paramName ELSE "undefined"

PropParser(part) == IF part.kind = "parameter" THEN part.parser ELSE ""

\* The test with === written for !==.
DuplicateTypeDiffersSame(parameters, name, type) ==
    ParameterEntryType(parameters, name) = type

\* result.parameters[name].type !== segment.type
DuplicateTypeDiffers(parameters, name, type) ==
    ParameterEntryType(parameters, name) # type

Building(regExpString, parameters) ==
    [threw |-> FALSE, error |-> "", regExpString |-> regExpString,
     parameters |-> parameters]

NoParameters == [n \in {} |-> createPathParamValueFunction("", "")]

BuildThrow(error) ==
    [threw |-> TRUE, error |-> error, regExpString |-> <<>>,
     parameters |-> NoParameters]

\* One parameter occurrence: a back-reference when the name is known (and
\* the types agree), a new named group and parameter entry otherwise.
AddParameter(acc, name, type, parser) ==
    IF HasParameter(acc.parameters, name)
    THEN IF DuplicateTypeDiffers(acc.parameters, name, type)
         THEN BuildThrow("SyntaxError")
         ELSE Building(Append(acc.regExpString, BackrefToken(name)), acc.parameters)
    ELSE Building(Append(acc.regExpString, GroupToken(name)),
                  (name :> createPathParamValueFunction(name, parser))
                      @@ acc.parameters)

RECURSIVE MixedParts(_, _, _)
\* segment.map(...).join("") of a mixed segment, from part j on.
MixedParts(parts, j, acc) ==
    IF acc.threw \/ j > Len(parts) THEN acc
    ELSE LET part == parts[j] IN
         MixedParts(parts, j + 1,
             IF part.kind = "literal"
             THEN Building(acc.regExpString \o escapeRegExp(part.text), acc.parameters)
             ELSE AddParameter(acc, PropParamName(part), PropType(part),
                               PropParser(part)))

\* The body of segments.forEach for one segment.
SegmentStep(acc, segment) ==
    LET slash == Building(acc.regExpString \o <<Ch("\\"), Ch("/")>>, acc.parameters) IN
    IF segment.kind = "literal"
    THEN Building(slash.regExpString \o escapeRegExp(segment.text), slash.parameters)
    ELSE IF segment.kind = "mixed"
    THEN MixedParts(segment.parts, 1, slash)
    ELSE IF segment.kind = "parameter"
    THEN IF segment.type # "" /\ segment.parser = "identity"
         THEN AddParameter(slash, segment.paramName, segment.type, segment.parser)
         ELSE BuildThrow("SyntaxError")
    ELSE BuildThrow("SyntaxError")

RECURSIVE SegmentsForEach(_, _, _)
SegmentsForEach(segments, i, acc) ==
    IF acc.threw \/ i > Len(segments) THEN acc
    ELSE SegmentsForEach(segments, i + 1, SegmentStep(acc, segments[i]))

NoPath ==
    [segments |-> <<>>, regex |-> NewRegExp(<<>>, <<>>), parameters |-> NoParameters]

\* createPath(...segments): the ServicePath, or the error thrown.
createPath(segments) ==
    LET built == SegmentsForEach(segments, 1, Building(<<>>, NoParameters))
        flags == addFlag(<<"y">>, <<"y">>) IN
    IF built.threw
    THEN [threw |-> TRUE, error |-> built.error, path |-> NoPath]
    ELSE IF flags.threw \/ InvalidSource(built.regExpString)
    THEN [threw |-> TRUE, error |-> "SyntaxError", path |-> NoPath]
    ELSE [threw |-> FALSE, error |-> "",
          path |-> [segments |-> segments,
                    regex |-> NewRegExp(built.regExpString, flags.value),
                    parameters |-> built.parameters]]

(***************************************************************************)
(* parsePath (path.mjs).  validPath reads pathRegularExpression, which no  *)
(* statement of the module declares: evaluating it throws a                *)
(* ReferenceError before any segment is parsed.                            *)
(***************************************************************************)
validPath(pathString) == [threw |-> TRUE, error |-> "ReferenceError", value |-> FALSE]

parsePath(pathString) ==
    LET valid == validPath(pathString) IN
    IF valid.threw THEN [threw |-> TRUE, error |-> valid.error, path |-> NoPath]
    ELSE [threw |-> TRUE, error |-> "TypeError", path |-> NoPath]

(***************************************************************************)
(* Inputs of the path compiler.                                            *)
(***************************************************************************)
\* The segment lists handed to createPath.
SegmentLists ==
    { <<Lit(sTest), Lit(sRest)>>,
      <<Lit(sTest), Par("parameter", "param")>>,
      <<Par("parameter", "param"), Lit(sRest)>>,
      <<Par("parameter", "param"), Par("parameter", "id")>>,
      <<Lit(sTest), Par("parameter", "eventId"), Lit(sGenerate),
        Par("parameter", "eventId")>>,
      <<Lit(sTest), Par("parameter", "eventId"), Par("catchall", "eventId")>>,
      <<Lit(sTest), Par("catchall", "eventId"), Par("parameter", "eventId")>>,
      <<Lit(sTest), Par("catchall", "all")>>,
      <<Lit(sTest), Par("catchall", "all"), Lit(sRest)>>,
      <<Lit(sTest), Par("optional", "all")>>,
      <<Lit(sTest), Par("parameter", "constructor")>>,
      <<Lit(sTest), ParNoParser("parameter", "param")>>,
      <<Lit(sTest), Lit(sStar)>>,
      <<Mix(<<Lit(sStar), Par("parameter", "param")>>)>>,
      <<Mix(<<Lit(sTest), Lit(sRest)>>)>>,
      <<Mix(<<Lit(sTest), Par("parameter", "param")>>), Lit(sRest)>>,
      <<Mix(<<Par("parameter", "id"), Par("optional", "id")>>)>> }

\* The template strings handed to parsePath.
PathStrings ==
    { <<"/">> \o sTest \o <<"/">> \o sRest,
      <<"/">> \o sTest \o <<"/", "[", "i", "d", "]">>,
      <<"/">> \o sTest \o <<"/", "[", ".", ".", ".", "i", "d", "]">>,
      <<"/">> \o sTest \o <<"/", "[", "[", ".", ".", ".", "i", "d", "]", "]">> }

\* The path components request paths are built from.
Components == {sTest, sRest, sOther, sGenerate}

\* The request paths handed to regex.exec.
ExecInputs ==
    { RenderComponents(<<sTest>>),
      RenderComponents(<<sTest>>) \o <<"/">>,
      RenderComponents(<<sTest, sRest>>),
      RenderComponents(<<sTest, sRest>>) \o <<"X">>,
      RenderComponents(<<sTest, sRest>>) \o <<"/">>,
      RenderComponents(<<sTest \o sRest>>),
      RenderComponents(<<sRest, sRest>>),
      RenderComponents(<<sRest, sOther>>),
      RenderComponents(<<sTest, sRest, sOther>>),
      RenderComponents(<<sTest, sRest, sRest>>),
      RenderComponents(<<sTest, sOther, sRest>>),
      RenderComponents(<<sTest, sRest, sGenerate, sRest>>),
      RenderComponents(<<sTest, sRest, sGenerate, sOther>>),
      RenderComponents(<<sTest, sStar>>) }

(***************************************************************************)
(* The path compiler as a state machine: compile a path, then run its      *)
(* matcher (whose lastIndex persists between calls) on request paths.      *)
(***************************************************************************)
NoPathResult ==
    [op |-> "none", segments |-> <<>>, pathString |-> <<>>, threw |-> FALSE,
     error |-> "", path |-> NoPath]

NoExec == [done |-> FALSE, input |-> <<>>, startIndex |-> 0, match |-> NoMatch]

NoLast ==
    [op |-> "none", input |-> <<>>, status |-> "none", error |-> "",
     paths |-> <<>>, found |-> FALSE,
     path |-> [oid |-> 0, segments |-> <<>>, regex |-> NewRegExp(<<>>, <<>>),
               parameters |-> NoParameters],
     keyCalled |-> FALSE, keyFunction |-> "", keyMatch |-> NoMatch,
     retrieveCalled |-> FALSE, dataSource |-> ""]

\* No comparator call yet.
NoComparison ==
    [op |-> "none", compared |-> <<>>, comparee |-> <<>>, third |-> <<>>,
     segment |-> UndefinedSegment, other |-> UndefinedSegment,
     forth |-> "", back |-> "", self |-> "", onward |-> "", across |-> ""]

\* No DataSource constructed yet.
NoSource ==
    [built |-> FALSE, store |-> <<>>, op |-> "none", value |-> "", filter |-> {},
     phase |-> "idle", keys |-> <<>>, pending |-> {}, values |-> <<>>,
     all |-> "pending", cause |-> "", outcome |-> "pending", error |-> "",
     pairs |-> <<>>, list |-> <<>>, key |-> ""]

\* new DataSource(...) not yet evaluated.
NoConstructed ==
    [done |-> FALSE, given |-> FALSE, source |-> <<>>, threw |-> FALSE,
     error |-> "", named |-> "", exposed |-> <<>>,
     call |-> [op |-> "none", arguments |-> <<>>, result |-> "none",
               error |-> "", named |-> "", retrieveCalls |-> 0, keysCalls |-> 0]]

\* No MemoryDataSource constructed yet.
NoMemory ==
    [attempted |-> FALSE, given |-> FALSE, parameters |-> <<>>, threw |-> FALSE,
     error |-> "", object |-> FALSE, content |-> <<>>]

\* No RegExpBuilder constructed yet.
NoBuilder ==
    [built |-> FALSE, segments |-> <<>>, groupCounts |-> <<>>, declared |-> <<>>,
     op |-> "none", threw |-> FALSE, error |-> ""]

\* addFlag not yet called.
NoFlagged ==
    [called |-> FALSE, flags |-> <<>>, addedFlags |-> <<>>, threw |-> FALSE,
     error |-> "", value |-> <<>>]

\* The module path.mjs as loaded: the counters after the one call that sets
\* the exported literalOrVariableRegex, and nothing returned to a caller yet.
NoCompiled ==
    [literalCount |-> 1, paramCount |-> 1, returned |-> <<>>, op |-> "none",
     threw |-> FALSE, error |-> ""]

RootPath ==
    [segments |-> <<>>, regex |-> NewRegExp(<<>>, <<>>), parameters |-> NoParameters]

Init ==
    /\ basePath \in {RootPath, createPath(<<Lit(sApi)>>).path}
    /\ dataSources = <<>>
    /\ keyFunctions = <<>>
    /\ last = NoLast
    /\ pathResult = NoPathResult
    /\ execResult = NoExec
    /\ comparison = NoComparison
    /\ datasource = NoSource
    /\ constructed = NoConstructed
    /\ memory = NoMemory
    /\ builder = NoBuilder
    /\ flagged = NoFlagged
    /\ pathModule = NoCompiled

\* const result = createPath(...segments)
CreatePath(segments) ==
    /\ LET result == createPath(segments) IN
       pathResult' = [op |-> "createPath", segments |-> segments,
                      pathString |-> <<>>, threw |-> result.threw,
                      error |-> result.error, path |-> result.path]
    /\ execResult' = NoExec
    /\ UNCHANGED <<serviceVars, comparisonVars, sourceVars, utilityVars>>

\* parsePath(pathString)
ParsePath(pathString) ==
    /\ LET result == parsePath(pathString) IN
       pathResult' = [op |-> "parsePath", segments |-> <<>>,
                      pathString |-> pathString, threw |-> result.threw,
                      error |-> result.error, path |-> result.path]
    /\ execResult' = NoExec
    /\ UNCHANGED <<serviceVars, comparisonVars, sourceVars, utilityVars>>

\* match = result.regex.exec(input)
Exec(input) ==
    /\ pathResult.op = "createPath"
    /\ ~pathResult.threw
    /\ LET r == RegExpExec(pathResult.path.regex, input) IN
       /\ execResult' = [done |-> TRUE, input |-> input,
                         startIndex |-> pathResult.path.regex.lastIndex,
                         match |-> r.match]
       /\ pathResult' = [pathResult EXCEPT !.path.regex.lastIndex = r.lastIndex]
    /\ UNCHANGED <<serviceVars, comparisonVars, sourceVars, utilityVars>>

PathNext ==
    \/ \E segments \in SegmentLists : CreatePath(segments)
    \/ \E pathString \in PathStrings : ParsePath(pathString)
    \/ \E input \in ExecInputs : Exec(input)

PathSpec == Init /\ [][PathNext]_vars

(***************************************************************************)
(* Properties of the path compiler (checked under PathSpec).               *)
(***************************************************************************)
RECURSIVE Occurrences(_)
\* The parameter descriptors of a segment list in order of occurrence,
\* those inside mixed segments included.
Occurrences(segments) ==
    IF segments = <<>> THEN <<>>
    ELSE LET s == Head(segments) IN
         (IF s.kind = "parameter" THEN <<s>>
          ELSE IF s.kind = "mixed" THEN Occurrences(s.parts)
          ELSE <<>>) \o Occurrences(Tail(segments))

ParamNamesOf(segments) ==
    {Occurrences(segments)[i].paramName : i \in 1..Len(Occurrences(segments))}

\* Every segment is a literal or a well-formed descriptor of the given types.
SegmentsOfTypes(segments, types) ==
    \A i \in 1..Len(segments) :
        \/ segments[i].kind = "literal"
        \/ /\ segments[i].kind = "parameter"
           /\ segments[i].type \in types
           /\ segments[i].parser = "identity"

\* The request path of a template with a component for each parameter.
Substitute(segments, assignment) ==
    RenderComponents([i \in 1..Len(segments) |->
        IF segments[i].kind = "literal" THEN segments[i].text
        ELSE assignment[segments[i].paramName]])

Compiled == pathResult.op = "createPath" /\ ~pathResult.threw

\* The matcher of the compiled path has just been run from offset 0.
ExecutedAtStart == Compiled /\ execResult.done /\ execResult.startIndex = 0

\* The value the path's parameter entry extracts from the last match.
ExtractedValue(name) ==
    ApplyValueFunction(pathResult.path.parameters[name], execResult.match)

\* C6: a path compiled from literals and single parameters matches every
\* request path obtained by substituting a component for each parameter, and
\* each parameter's value function returns exactly the substituted component.
C6_ParameterRoundTrip ==
    (/\ ExecutedAtStart
     /\ SegmentsOfTypes(pathResult.segments, {"parameter"})
     /\ ParamNamesOf(pathResult.segments) # {})
    => \A a \in [ParamNamesOf(pathResult.segments) -> Components] :
          execResult.input = Substitute(pathResult.segments, a)
          => /\ execResult.match.ok
             /\ \A n \in ParamNamesOf(pathResult.segments) :
                   /\ n \in DOMAIN pathResult.path.parameters
                   /\ ExtractedValue(n) = JsString(a[n])

\* C7: the matcher of a literal-only path accepts its rendered path at offset
\* 0 with the whole string as the match, and a successful match always ends
\* at a "/" or at the end of the input.
C7_LiteralMatchEndsAtBoundary ==
    (/\ ExecutedAtStart
     /\ pathResult.segments # <<>>
     /\ SegmentsOfTypes(pathResult.segments, {}))
    => /\ execResult.input = Substitute(pathResult.segments, <<>>)
          => /\ execResult.match.ok
             /\ execResult.match.index = 0
             /\ execResult.match.text = execResult.input
       /\ execResult.match.ok
          => \/ execResult.match.end = Len(execResult.input)
             \/ execResult.input[execResult.match.end + 1] = "/"

\* A parameter name occurs more than once, every time with the same type.
RepeatsNameWithSameType(segments) ==
    LET occ == Occurrences(segments) IN
    /\ \E i, j \in 1..Len(occ) : i < j /\ occ[i].paramName = occ[j].paramName
    /\ \A i, j \in 1..Len(occ) :
          occ[i].paramName = occ[j].paramName => occ[i].type = occ[j].type

EventIdTemplate ==
    <<Lit(sTest), Par("parameter", "eventId"), Lit(sGenerate),
      Par("parameter", "eventId")>>

\* C8: a path that repeats a parameter name with the same type compiles, and
\* /test/[eventId]/generate/[eventId] matches /test/rest/generate/rest with
\* eventId = "rest" and does not match /test/rest/generate/other.
C8_RepeatedNameBackReference ==
    /\ (/\ pathResult.op = "createPath"
        /\ SegmentsOfTypes(pathResult.segments, {"parameter"})
        /\ ParamNamesOf(pathResult.segments) \cap ObjectPrototypeNames = {}
        /\ RepeatsNameWithSameType(pathResult.segments))
       => ~pathResult.threw
    /\ (ExecutedAtStart /\ pathResult.segments = EventIdTemplate)
       => /\ execResult.input = RenderComponents(<<sTest, sRest, sGenerate, sRest>>)
             => /\ execResult.match.ok
                /\ ExtractedValue("eventId") = JsString(sRest)
          /\ execResult.input = RenderComponents(<<sTest, sRest, sGenerate, sOther>>)
             => ~execResult.match.ok

\* The lists of lo..hi components.
ComponentLists(lo, hi) == UNION {[1..k -> Components] : k \in lo..hi}

\* C9: a final catch-all segment consumes one or more remaining components,
\* a final optional catch-all zero or more, and the extracted value is the
\* list of the consumed components (empty when nothing was consumed).
C9_CatchAllConsumesComponents ==
    LET segments == pathResult.segments
        n == Len(segments) IN
    (/\ ExecutedAtStart
     /\ n >= 2
     /\ SegmentsOfTypes(SubSeq(segments, 1, n - 1), {})
     /\ SegmentsOfTypes(<<segments[n]>>, {"catchall", "optional"})
     /\ segments[n].kind = "parameter")
    => \A cs \in ComponentLists(IF segments[n].type = "catchall" THEN 1 ELSE 0, 2) :
          execResult.input
             = Substitute(SubSeq(segments, 1, n - 1), <<>>) \o RenderComponents(cs)
          => /\ execResult.match.ok
             /\ execResult.match.text = execResult.input
             /\ ExtractedValue(segments[n].paramName) = JsArray(cs)

\* A parameter name occurs a second time with a type other than its first.
ReusesNameWithDifferentType(segments) ==
    LET occ == Occurrences(segments) IN
    \E i, j \in 1..Len(occ) :
        i < j /\ occ[i].paramName = occ[j].paramName /\ occ[i].type # occ[j].type

\* C10: createPath throws a SyntaxError, and returns no ServicePath, when a
\* parameter name is used a second time with a different declared type.
C10_TypeConflictIsSyntaxError ==
    (pathResult.op = "createPath" /\ ReusesNameWithDifferentType(pathResult.segments))
    => /\ pathResult.threw
       /\ pathResult.error = "SyntaxError"
       /\ pathResult.path = NoPath

C10_Witness ==
    /\ pathResult.op = "createPath"
    /\ pathResult.segments
         = <<Lit(sTest), Par("parameter", "eventId"), Par("catchall", "eventId")>>
    /\ pathResult.threw

(***************************************************************************)
(* The segment comparator (regexp_tools.mjs, module service).  A result    *)
(* is one of "-1", "0", "1", "NaN", or "TypeError" when the comparison     *)
(* throws.                                                                 *)
(***************************************************************************)
isLiteralSegment(segment) == segment.kind = "literal"

isParameterSegment(segment) ==
    segment.kind = "parameter" /\ segment.type # "" /\ segment.paramName # ""

RECURSIVE isMixedSegmentList(_)
\* isMixedSegment of an array, given as the list of its elements.
isMixedSegmentList(list) ==
    \A i \in 1..Len(list) :
        \/ isLiteralSegment(list[i])
        \/ isParameterSegment(list[i])
        \/ (list[i].kind = "mixed" /\ isMixedSegmentList(list[i].parts))

isMixedSegment(segment) == segment.kind = "mixed" /\ isMixedSegmentList(segment.parts)

\* defaultComparison of two numbers.
defaultComparison(a, b) == IF a < b THEN "-1" ELSE IF a > b THEN "1" ELSE "0"

\* defaultComparison of two strings.
defaultComparisonString(a, b) ==
    IF StrLess(a, b) THEN "-1" ELSE IF StrLess(b, a) THEN "1" ELSE "0"

ParameterTypeOrder == <<"parameter", "catchall", "optional">>

\* order.indexOf(type), -1 when absent.
IndexOfType(type) ==
    IF \E i \in 1..Len(ParameterTypeOrder) : ParameterTypeOrder[i] = type
    THEN (CHOOSE i \in 1..Len(ParameterTypeOrder) : ParameterTypeOrder[i] = type) - 1
    ELSE -1

\* The comparison with the two keys exchanged.
compareParameterTypesSwapped(compared, comparee) ==
    IF IndexOfType(compared) >= 0 /\ IndexOfType(comparee) >= 0
    THEN defaultComparison(IndexOfType(comparee), IndexOfType(compared))
    ELSE "NaN"

compareParameterTypes(compared, comparee) ==
    IF IndexOfType(compared) >= 0 /\ IndexOfType(comparee) >= 0
    THEN defaultComparison(IndexOfType(compared), IndexOfType(comparee))
    ELSE "NaN"

\* A comparison result that is truthy (a non-zero number), or an exception.
EndsComparison(result) == result \in {"-1", "1", "TypeError"}

RECURSIVE compareSegment(_, _)
RECURSIVE compareSegmentLists(_, _)
RECURSIVE compareSegmentListsFrom(_, _, _)

compareSegment(compared, comparee) ==
    IF isLiteralSegment(compared)
    THEN IF isLiteralSegment(comparee)
         THEN defaultComparisonString(compared.text, comparee.text)
         ELSE "-1"
    ELSE IF isParameterSegment(compared)
    THEN IF isLiteralSegment(comparee) THEN "1"
         ELSE IF isMixedSegment(comparee)
         THEN IF Len(comparee.parts) > 0 /\ isLiteralSegment(comparee.parts[1])
              THEN "1"
              \* compared.length === 0 is false: a descriptor has no length
              ELSE compareSegment(compared, At(comparee.parts, 1))
         \* comparee.type of undefined throws
         ELSE IF comparee.kind = "undefined" THEN "TypeError"
         ELSE compareParameterTypes(compared.type, PropType(comparee))
    ELSE IF isMixedSegment(compared)
    THEN IF isMixedSegment(comparee)
         THEN compareSegmentLists(compared.parts, comparee.parts)
         ELSE IF Len(compared.parts) = 0 THEN "1"
         ELSE compareSegment(compared.parts[1], comparee)
    ELSE "NaN"

\* The for loop of compareSegmentLists from the 1-based position i; its
\* bound and both counts are compared.length.
compareSegmentListsFrom(compared, comparee, i) ==
    IF i > Len(compared)
    THEN defaultComparison(Len(compared), Len(compared))
    ELSE LET result == compareSegment(compared[i], At(comparee, i)) IN
         IF EndsComparison(result) THEN result
         ELSE compareSegmentListsFrom(compared, comparee, i + 1)

\* (validCompared, validComparee) is the value of validComparee.
compareSegmentLists(compared, comparee) ==
    IF isMixedSegmentList(comparee)
    THEN compareSegmentListsFrom(compared, comparee, 1)
    ELSE "NaN"

(***************************************************************************)
(* Array.prototype.sort with a comparator, as the runtime of the           *)
(* repository (Node.js, V8) sorts an array of fewer than 64 elements: one  *)
(* run is counted from the start and the rest is inserted by binary        *)
(* insertion.  The comparator here is (a, b) =>                            *)
(* compareSegmentLists(a.segments, b.segments); a NaN result counts as 0   *)
(* and an exception ends the sort.                                         *)
(***************************************************************************)
SortCompare(a, b) == compareSegmentLists(a.segments, b.segments)

IsLess(order) == order = "-1"

Reverse(seq) == [i \in 1..Len(seq) |-> seq[Len(seq) + 1 - i]]

RECURSIVE CountRun(_, _, _)
\* The length of the run that starts the array: idx is the next 1-based
\* position to look at, the run so far is arr[1..idx-1].
CountRun(arr, idx, isDescending) ==
    IF idx > Len(arr) THEN [threw |-> FALSE, runLength |-> idx - 1]
    ELSE LET order == SortCompare(arr[idx], arr[idx - 1]) IN
         IF order = "TypeError" THEN [threw |-> TRUE, runLength |-> 0]
         ELSE IF isDescending # IsLess(order)
         THEN [threw |-> FALSE, runLength |-> idx - 1]
         ELSE CountRun(arr, idx + 1, isDescending)

RECURSIVE BinarySearch(_, _, _, _)
\* The insertion point of pivot in the sorted arr[left+1..right] (0-based
\* bounds left, right).
BinarySearch(arr, pivot, left, right) ==
    IF left >= right THEN [threw |-> FALSE, at |-> left]
    ELSE LET mid == left + ((right - left) \div 2)
             order == SortCompare(pivot, arr[mid + 1]) IN
         IF order = "TypeError" THEN [threw |-> TRUE, at |-> 0]
         ELSE IF IsLess(order) THEN BinarySearch(arr, pivot, left, mid)
         ELSE BinarySearch(arr, pivot, mid + 1, right)

InsertAt(arr, start, at) ==
    SubSeq(arr, 1, at) \o <<arr[start + 1]>> \o SubSeq(arr, at + 1, start)
        \o SubSeq(arr, start + 2, Len(arr))

RECURSIVE BinaryInsertionSort(_, _)
\* Inserts arr[start+1..] (0-based start) into the sorted arr[1..start].
BinaryInsertionSort(arr, start) ==
    IF start >= Len(arr) THEN [threw |-> FALSE, array |-> arr]
    ELSE LET found == BinarySearch(arr, arr[start + 1], 0, start) IN
         IF found.threw THEN [threw |-> TRUE, array |-> <<>>]
         ELSE BinaryInsertionSort(InsertAt(arr, start, found.at), start + 1)

ArraySort(arr) ==
    IF Len(arr) < 2 THEN [threw |-> FALSE, array |-> arr]
    ELSE LET first == SortCompare(arr[2], arr[1]) IN
         IF first = "TypeError" THEN [threw |-> TRUE, array |-> <<>>]
         ELSE LET run == CountRun(arr, 3, IsLess(first)) IN
              IF run.threw THEN [threw |-> TRUE, array |-> <<>>]
              ELSE BinaryInsertionSort(
                       IF IsLess(first)
                       THEN Reverse(SubSeq(arr, 1, run.runLength))
                                \o SubSeq(arr, run.runLength + 1, Len(arr))
                       ELSE arr,
                       run.runLength)

(***************************************************************************)
(* The Service registry (regexp_tools.mjs, class Service).  A ServicePath  *)
(* object is a map key by identity: `oid` is the identity of a registered  *)
(* object, and TransientOid that of an object no map holds.                *)
(***************************************************************************)
TransientOid == 0

\* The key function and the data source handed to addDataSource together.
Registrations ==
    { [keyFunction |-> "kf1", dataSource |-> "ds1"],
      [keyFunction |-> "kf2", dataSource |-> "ds2"] }

\* The segment lists of the paths handed to addDataSource.
ServiceSegmentLists ==
    { <<Lit(sUsers), Lit(sAdmin)>>,
      <<Lit(sUsers), Par("parameter", "id")>>,
      <<Lit(sUsers)>>,
      <<Par("parameter", "id")>> }

\* The request paths handed to the service.
RequestPaths ==
    { RenderComponents(<<sUsers, sAdmin>>),
      RenderComponents(<<sUsers \o sAdmin>>),
      RenderComponents(<<sUsers>>),
      RenderComponents(<<sUsers, sRest>>),
      RenderComponents(<<sApi, sUsers, sAdmin>>),
      RenderComponents(<<sApi \o sUsers>>),
      <<"/">> }

MapHas(map, oid) == \E i \in 1..Len(map) : map[i].key.oid = oid

\* Map.prototype.get: the value, or Undefined.
MapGet(map, oid) ==
    IF MapHas(map, oid)
    THEN map[CHOOSE i \in 1..Len(map) : map[i].key.oid = oid].value
    ELSE Undefined

\* [...map.keys()]
MapKeys(map) == [i \in 1..Len(map) |-> map[i].key]

\* The object createPath returns, with its identity.
PathObject(oid, path) ==
    [oid |-> oid, segments |-> path.segments, regex |-> path.regex,
     parameters |-> path.parameters]

\* (path) => createPath([...this.#basePath.segments, ...path.segments]):
\* the one argument is an array, which createPath takes as one mixed segment.
ServicePathOf(path) == createPath(<<Mix(basePath.segments \o path.segments)>>)

\* The value of a one-element set: binds a result that is computed once.
Only(set) == CHOOSE value \in set : TRUE

\* .map(createPath...) over the sorted keys, or the error it throws.
MapServicePaths(compiled) ==
    IF \E i \in 1..Len(compiled) : compiled[i].threw
    THEN [threw |-> TRUE, error |-> "SyntaxError", paths |-> <<>>]
    ELSE [threw |-> FALSE, error |-> "",
          paths |-> [i \in 1..Len(compiled) |->
                        PathObject(TransientOid, compiled[i].path)]]

\* getServicePaths(): the sorted keys, each recompiled; or the error thrown.
getServicePaths ==
    Only({ IF sorted.threw
           THEN [threw |-> TRUE, error |-> "TypeError", paths |-> <<>>]
           ELSE Only({ MapServicePaths(compiled) :
                       compiled \in {[i \in 1..Len(sorted.array) |->
                                        ServicePathOf(sorted.array[i])]} }) :
           sorted \in {ArraySort(MapKeys(dataSources))} })

\* match && match.index === 0
Accepted(match) == match.ok /\ match.index = 0

\* .find(...) over the service paths: the first whose exec is accepted, its
\* matcher's lastIndex moved by that exec; found = FALSE is undefined.
FindAccepted(paths, execs) ==
    IF \E i \in 1..Len(execs) : Accepted(execs[i].match)
    THEN LET first == CHOOSE i \in 1..Len(execs) :
                         /\ Accepted(execs[i].match)
                         /\ \A j \in 1..(i - 1) : ~Accepted(execs[j].match) IN
         [threw |-> FALSE, error |-> "", found |-> TRUE,
          path |-> [paths[first] EXCEPT !.regex.lastIndex = execs[first].lastIndex]]
    ELSE [threw |-> FALSE, error |-> "", found |-> FALSE,
          path |-> PathObject(TransientOid, NoPath)]

findServicePath(path) ==
    Only({ IF got.threw
           THEN [threw |-> TRUE, error |-> got.error, found |-> FALSE,
                 path |-> PathObject(TransientOid, NoPath)]
           ELSE Only({ FindAccepted(got.paths, execs) :
                       execs \in {[i \in 1..Len(got.paths) |->
                                     RegExpExec(got.paths[i].regex, path)]} }) :
           got \in {getServicePaths} })

Outcome(op, input) == [NoLast EXCEPT !.op = op, !.input = input]

\* addDataSource(path, keyFunction, dataSource) with a ServicePath that
\* createPath has just returned (a new object).
AddDataSource(segments, keyFunction, dataSource) ==
    /\ Len(dataSources) < MaxRegistered
    /\ LET created == createPath(segments)
           path == PathObject(Len(dataSources) + 1, created.path) IN
       /\ ~created.threw
       /\ IF MapHas(dataSources, path.oid)
          THEN /\ last' = [Outcome("addDataSource", <<>>) EXCEPT
                             !.status = "threw", !.error = "RangeError",
                             !.path = path]
               /\ UNCHANGED <<dataSources, keyFunctions>>
          ELSE /\ dataSources' = Append(dataSources, [key |-> path, value |-> dataSource])
               /\ keyFunctions' = Append(keyFunctions, [key |-> path, value |-> keyFunction])
               /\ last' = [Outcome("addDataSource", <<>>) EXCEPT
                             !.status = "returned", !.path = path]
    /\ UNCHANGED <<basePath, pathVars, comparisonVars, sourceVars, utilityVars>>

\* addDataSource with the i-th registered ServicePath object once more.
AddDataSourceAgain(i, keyFunction, dataSource) ==
    /\ i \in 1..Len(dataSources)
    /\ LET path == dataSources[i].key IN
       IF MapHas(dataSources, path.oid)
       THEN /\ last' = [Outcome("addDataSource", <<>>) EXCEPT
                          !.status = "threw", !.error = "RangeError",
                          !.path = path]
            /\ UNCHANGED <<dataSources, keyFunctions>>
       ELSE /\ dataSources' = Append(dataSources, [key |-> path, value |-> dataSource])
            /\ keyFunctions' = Append(keyFunctions, [key |-> path, value |-> keyFunction])
            /\ last' = [Outcome("addDataSource", <<>>) EXCEPT
                          !.status = "returned", !.path = path]
    /\ UNCHANGED <<basePath, pathVars, comparisonVars, sourceVars, utilityVars>>

GetServicePaths ==
    /\ \E got \in {getServicePaths} :
       last' = [Outcome("getServicePaths", <<>>) EXCEPT
                  !.status = IF got.threw THEN "threw" ELSE "returned",
                  !.error = got.error,
                  !.paths = got.paths]
    /\ UNCHANGED <<basePath, dataSources, keyFunctions, pathVars, comparisonVars, sourceVars, utilityVars>>

FindServicePath(path) ==
    /\ \E servicePath \in {findServicePath(path)} :
       last' = [Outcome("findServicePath", path) EXCEPT
                  !.status = IF servicePath.threw THEN "threw" ELSE "returned",
                  !.error = servicePath.error,
                  !.found = servicePath.found,
                  !.path = servicePath.path]
    /\ UNCHANGED <<basePath, dataSources, keyFunctions, pathVars, comparisonVars, sourceVars, utilityVars>>

\* getResourceByPath(path).  Status "retrieved": the promise returned by
\* dataSource.retrieve(key); "rejected": Promise.reject({error: 404}).
\* The body of getResourceByPath once findServicePath has returned.
ResourceOf(servicePath, path) ==
    LET keyDefiner == MapGet(keyFunctions, servicePath.path.oid)
        dataSource == MapGet(dataSources, servicePath.path.oid)
        call == Outcome("getResourceByPath", path) IN
    IF servicePath.found
    THEN \* servicePath.regex.exec(path), the argument of keyDefiner
         LET match == RegExpExec(servicePath.path.regex, path).match IN
         IF keyDefiner = Undefined
         \* keyDefiner is not a function
         THEN [call EXCEPT !.status = "threw", !.error = "TypeError",
                           !.found = TRUE, !.path = servicePath.path,
                           !.keyMatch = match]
         ELSE IF dataSource = Undefined
         THEN [call EXCEPT !.status = "threw", !.error = "TypeError",
                           !.found = TRUE, !.path = servicePath.path,
                           !.keyCalled = TRUE, !.keyFunction = keyDefiner,
                           !.keyMatch = match]
         ELSE [call EXCEPT !.status = "retrieved",
                           !.found = TRUE, !.path = servicePath.path,
                           !.keyCalled = TRUE, !.keyFunction = keyDefiner,
                           !.keyMatch = match,
                           !.retrieveCalled = TRUE, !.dataSource = dataSource]
    ELSE [call EXCEPT !.status = "rejected", !.error = "404"]

GetResourceByPath(path) ==
    /\ \E servicePath \in {findServicePath(path)} :
       last' = IF servicePath.threw
               THEN [Outcome("getResourceByPath", path) EXCEPT
                       !.status = "threw", !.error = servicePath.error]
               ELSE ResourceOf(servicePath, path)
    /\ UNCHANGED <<basePath, dataSources, keyFunctions, pathVars, comparisonVars, sourceVars, utilityVars>>

Next ==
    \/ \E segments \in ServiceSegmentLists, added \in Registrations :
          AddDataSource(segments, added.keyFunction, added.dataSource)
    \/ \E i \in 1..MaxRegistered, added \in Registrations :
          AddDataSourceAgain(i, added.keyFunction, added.dataSource)
    \/ GetServicePaths
    \/ \E path \in RequestPaths : FindServicePath(path)
    \/ \E path \in RequestPaths : GetResourceByPath(path)

Spec == Init /\ [][Next]_vars

(***************************************************************************)
(* Properties of the Service registry (checked under Spec).                *)
(***************************************************************************)
UsersAdminRoute == <<Lit(sUsers), Lit(sAdmin)>>

UsersIdRoute == <<Lit(sUsers), Par("parameter", "id")>>

\* The segment lists of the registered paths.
RegisteredSegments == {dataSources[i].key.segments : i \in 1..Len(dataSources)}

\* The matcher of the i-th registered path under the base path, each segment
\* a separate segment, accepts the request path at offset 0.
RegisteredAccepts(i, path) ==
    LET created == createPath(basePath.segments \o dataSources[i].key.segments) IN
    /\ ~created.threw
    /\ Accepted(RegExpExec(created.path.regex, path).match)

\* Some matcher made of the i-th registered path accepts the request path:
\* that of the registered object itself, or one of the path under the base
\* path, its segments kept apart or joined into one.
SomeMatcherAccepts(i, path) ==
    \/ RegisteredAccepts(i, path)
    \/ Accepted(RegExpExec(dataSources[i].key.regex, path).match)
    \/ /\ ~ServicePathOf(dataSources[i].key).threw
       /\ Accepted(RegExpExec(ServicePathOf(dataSources[i].key).path.regex, path).match)

\* C1: with /users/[id] and /users/admin both registered, in either order,
\* findServicePath("/users/admin") returns the literal route /users/admin.
C1_LiteralRouteSelected ==
    (/\ basePath = RootPath
     /\ {UsersAdminRoute, UsersIdRoute} \subseteq RegisteredSegments
     /\ last.op = "findServicePath"
     /\ last.input = RenderComponents(<<sUsers, sAdmin>>))
    => /\ last.status = "returned"
       /\ last.found
       /\ last.path.segments = UsersAdminRoute

\* C2: for a request path that matches a registered path, getResourceByPath
\* calls the key function registered with a matching path, with the
\* successful match at offset 0, and returns what retrieve gives on the data
\* source registered with that same path.
C2_ResourceOfMatchingPath ==
    (/\ last.op = "getResourceByPath"
     /\ \E i \in 1..Len(dataSources) : RegisteredAccepts(i, last.input))
    => /\ last.status = "retrieved"
       /\ last.keyCalled /\ last.retrieveCalled
       /\ Accepted(last.keyMatch)
       /\ \E i \in 1..Len(dataSources) :
             /\ RegisteredAccepts(i, last.input)
             /\ last.keyFunction = keyFunctions[i].value
             /\ last.dataSource = dataSources[i].value

\* C3: no two registered paths are structurally identical (have the same
\* segment sequence), also when they are distinct objects.
C3_NoStructuralDuplicates ==
    \A i, j \in 1..Len(dataSources) :
        dataSources[i].key.segments = dataSources[j].key.segments => i = j

\* C4: getServicePaths returns one path per registered path, most specific
\* first by compareSegmentLists, the segments of each being the base path's
\* segments followed by the registered path's segments, each kept separate.
C4_ServicePathsSortedWithBase ==
    last.op = "getServicePaths"
    => /\ last.status = "returned"
       /\ Len(last.paths) = Len(dataSources)
       /\ \E order \in [1..Len(dataSources) -> 1..Len(dataSources)] :
             /\ \A i, j \in 1..Len(dataSources) : order[i] = order[j] => i = j
             /\ \A k \in 1..Len(dataSources) :
                   last.paths[k].segments
                      = basePath.segments \o dataSources[order[k]].key.segments
       /\ \A k, l \in 1..Len(last.paths) :
             k < l => compareSegmentLists(last.paths[k].segments,
                                          last.paths[l].segments) # "1"

\* C5: when no registered path's matcher accepts the request path (an empty
\* registry included), getResourceByPath returns a promise rejected with the
\* 404 marker: it does not throw, and calls no key function or data source.
C5_UnmatchedIsRejected404 ==
    (/\ last.op = "getResourceByPath"
     /\ \A i \in 1..Len(dataSources) : ~SomeMatcherAccepts(i, last.input))
    => /\ last.status = "rejected"
       /\ last.error = "404"
       /\ ~last.keyCalled
       /\ ~last.retrieveCalled

(***************************************************************************)
(* Properties of createPath's literal segments (checked under PathSpec).   *)
(***************************************************************************)
\* The characters a literal segment may hold: letters, digits, ".", "_",
\* "-" and the "%" of a percent-escape.
LiteralCharset ==
    {"a", "d", "e", "g", "h", "i", "m", "n", "o", "p", "r", "s", "t", "u", "X",
     "0", "1", "2", "3", "4", "5", "6", "7", "8", "9", ".", "_", "-", "%"}

RECURSIVE LiteralTexts(_)
\* The texts of the literal segments of a segment list, those inside mixed
\* segments included.
LiteralTexts(segments) ==
    IF segments = <<>> THEN {}
    ELSE LET s == Head(segments) IN
         (IF s.kind = "literal" THEN {s.text}
          ELSE IF s.kind = "mixed" THEN LiteralTexts(s.parts)
          ELSE {}) \cup LiteralTexts(Tail(segments))

HasLiteralOutsideCharset(segments) ==
    \E text \in LiteralTexts(segments) :
        \E i \in 1..Len(text) : text[i] \notin LiteralCharset

\* C11: createPath throws a SyntaxError, and returns no ServicePath, when a
\* literal segment holds a character outside the literal charset.
C11_LiteralCharsetEnforced ==
    (pathResult.op = "createPath" /\ HasLiteralOutsideCharset(pathResult.segments))
    => /\ pathResult.threw
       /\ pathResult.error = "SyntaxError"
       /\ pathResult.path = NoPath

(***************************************************************************)
(* The segment comparator as a state machine: one call of compareSegment   *)
(* on a pair of segments with the call in the opposite direction, or the   *)
(* calls of compareSegmentLists among three segment lists.  The comparator *)
(* keeps no state, so each behaviour makes its calls once.                 *)
(***************************************************************************)
\* The segments handed to compareSegment.
ComparedSegments ==
    { Lit(sApi), Lit(sUsers),
      Par("parameter", "id"), Par("parameter", "param"),
      Par("catchall", "all"), Par("optional", "all"),
      Par("unknown", "id"),
      Mix(<<>>), Mix(<<Lit(sUsers), Par("parameter", "id")>>) }

\* The segment lists handed to compareSegmentLists.
ComparedLists ==
    { <<>>,
      <<Lit(sApi)>>,
      <<Lit(sUsers)>>,
      <<Lit(sUsers), Lit(sAdmin)>>,
      <<Lit(sUsers), Par("parameter", "id")>>,
      <<Par("parameter", "id")>>,
      <<Par("catchall", "all")>>,
      <<Par("optional", "all")>>,
      <<Par("parameter", "id"), Lit(sApi)>>,
      <<Par("unknown", "id"), Lit(sApi)>>,
      <<Par("unknown", "id"), Lit(sUsers)>>,
      <<Mix(<<>>)>>,
      <<Mix(<<Lit(sUsers), Par("parameter", "id")>>)>> }

\* compareSegment(segment, other) and compareSegment(other, segment)
CompareSegment(segment, other) ==
    /\ comparison = NoComparison
    /\ comparison' = [NoComparison EXCEPT
                        !.op = "compareSegment",
                        !.segment = segment, !.other = other,
                        !.forth = compareSegment(segment, other),
                        !.back = compareSegment(other, segment),
                        !.self = compareSegment(segment, segment)]
    /\ UNCHANGED <<serviceVars, pathVars, sourceVars, utilityVars>>

\* compareSegmentLists among compared, comparee and a third list.
CompareSegmentLists(compared, comparee, third) ==
    /\ comparison = NoComparison
    /\ comparison' = [NoComparison EXCEPT
                        !.op = "compareSegmentLists",
                        !.compared = compared, !.comparee = comparee,
                        !.third = third,
                        !.forth = compareSegmentLists(compared, comparee),
                        !.back = compareSegmentLists(comparee, compared),
                        !.self = compareSegmentLists(compared, compared),
                        !.onward = compareSegmentLists(comparee, third),
                        !.across = compareSegmentLists(compared, third)]
    /\ UNCHANGED <<serviceVars, pathVars, sourceVars, utilityVars>>

CompareNext ==
    \/ \E segment, other \in ComparedSegments : CompareSegment(segment, other)
    \/ \E compared, comparee, third \in ComparedLists :
          CompareSegmentLists(compared, comparee, third)

CompareSpec == Init /\ [][CompareNext]_vars

(***************************************************************************)
(* Properties of the segment comparator (checked under CompareSpec).       *)
(***************************************************************************)
ParameterKinds == {"parameter", "catchall", "optional"}

RECURSIVE ValidSegments(_)
\* Every segment is a literal, a parameter descriptor of a known kind with
\* a name, or a mixed segment of such segments.
ValidSegments(list) ==
    \A i \in 1..Len(list) :
        \/ list[i].kind = "literal"
        \/ /\ list[i].kind = "parameter"
           /\ list[i].type \in ParameterKinds
           /\ list[i].paramName # ""
        \/ list[i].kind = "mixed" /\ ValidSegments(list[i].parts)

ComparedListsAreValid ==
    /\ comparison.op = "compareSegmentLists"
    /\ ValidSegments(comparison.compared)
    /\ ValidSegments(comparison.comparee)
    /\ ValidSegments(comparison.third)

Signs == {"-1", "0", "1"}

\* The sign opposite to a comparison result.
Negated(result) ==
    IF result = "-1" THEN "1" ELSE IF result = "1" THEN "-1" ELSE "0"

\* C12: compareSegmentLists is antisymmetric on valid segment lists: the
\* result of (a, b) is the negated result of (b, a), and (a, a) is 0.
C12_Antisymmetric ==
    (/\ ComparedListsAreValid
     /\ comparison.forth \in Signs
     /\ comparison.back \in Signs
     /\ comparison.self \in Signs)
    => /\ comparison.back = Negated(comparison.forth)
       /\ comparison.self = "0"

\* C13: compareSegmentLists is transitive on valid segment lists: (a, b) <= 0
\* and (b, c) <= 0 give (a, c) <= 0, and (a, c) < 0 when a premise is strict.
C13_Transitive ==
    (/\ ComparedListsAreValid
     /\ comparison.forth \in {"-1", "0"}
     /\ comparison.onward \in {"-1", "0"}
     /\ comparison.across \in Signs)
    => /\ comparison.across \in {"-1", "0"}
       /\ ("-1" \in {comparison.forth, comparison.onward}
           => comparison.across = "-1")

\* C14: compareSegmentLists is total on valid segment lists: it returns -1, 0
\* or 1, and neither throws nor returns NaN.
C14_Total ==
    ComparedListsAreValid => comparison.forth \in Signs

\* The compared list is longer than the comparee, and the two tie at every
\* position of the comparee.
LongerWithTiedPrefix ==
    /\ Len(comparison.compared) > Len(comparison.comparee)
    /\ \A i \in 1..Len(comparison.comparee) :
          compareSegment(comparison.compared[i], comparison.comparee[i]) = "0"

\* C15: of two valid segment lists that tie on every position they share,
\* the longer sorts first: (longer, shorter) < 0 and (shorter, longer) > 0.
C15_LongerListFirst ==
    (ComparedListsAreValid /\ LongerWithTiedPrefix)
    => /\ comparison.forth = "-1"
       /\ comparison.back = "1"

IsLiteral(segment) == segment.kind = "literal"

IsParameterOfKnownKind(segment) ==
    segment.kind = "parameter" /\ segment.type \in ParameterKinds
        /\ segment.paramName # ""

\* The rank of a parameter kind: parameter, then catchall, then optional.
KindRank(type) ==
    IF type = "parameter" THEN 0 ELSE IF type = "catchall" THEN 1 ELSE 2

\* The order of two numbers or two strings as a comparison result.
OrderOf(less, greater) == IF less THEN "-1" ELSE IF greater THEN "1" ELSE "0"

\* C16: compareSegment ranks single segments by kind: a literal before (-1)
\* every parameter, catchall and optional segment and each of those after
\* (+1) every literal; two parameter segments by kind, parameter before
\* catchall before optional, equal kinds tying; two literals as strings.
C16_SegmentsRankedByKind ==
    LET x == comparison.segment
        y == comparison.other IN
    comparison.op = "compareSegment"
    => /\ (IsLiteral(x) /\ IsParameterOfKnownKind(y))
          => comparison.forth = "-1" /\ comparison.back = "1"
       /\ (IsParameterOfKnownKind(x) /\ IsParameterOfKnownKind(y))
          => comparison.forth = OrderOf(KindRank(x.type) < KindRank(y.type),
                                        KindRank(x.type) > KindRank(y.type))
       /\ (IsLiteral(x) /\ IsLiteral(y))
          => comparison.forth = OrderOf(StrLess(x.text, y.text),
                                        StrLess(y.text, x.text))

C16_Witness ==
    /\ comparison.op = "compareSegment"
    /\ comparison.segment = Par("catchall", "all")
    /\ comparison.other = Par("optional", "all")
    /\ comparison.forth = "-1"
    /\ comparison.back = "1"

\* The first position the two lists share at which their segments do not
\* tie is an incomparable one (compareSegment gives NaN there).
FirstDifferenceIsIncomparable ==
    LET a == comparison.compared
        b == comparison.comparee
        shared == 1..(IF Len(a) < Len(b) THEN Len(a) ELSE Len(b)) IN
    \E i \in shared :
        /\ compareSegment(a[i], b[i]) = "NaN"
        /\ \A j \in 1..(i - 1) : compareSegment(a[j], b[j]) = "0"

\* C17: when the segments at a position are incomparable, compareSegmentLists
\* gives the incomparable result for the whole comparison: it does not go on
\* to later positions or return 0 or another order.
C17_IncomparableIsReported ==
    (comparison.op = "compareSegmentLists" /\ FirstDifferenceIsIncomparable)
    => comparison.forth = "NaN"

(***************************************************************************)
(* DataSource (module datasource): a source built from retrieve and keys   *)
(* only, so that retrieveAll, filterByKey, filterByValue and keyOfValue    *)
(* are the defaults of the constructor.  The backing entries are a list    *)
(* in the order keys() gives; retrieve(key) resolves to the entry's value  *)
(* or rejects with the entry's reason.  A call runs in steps: keys()       *)
(* resolves, the retrieve promises settle in any order, Promise.all        *)
(* fulfils.                                                                *)
(***************************************************************************)
MaxKeys == 2

SourceKeys == {"k1", "k2", "k3"}

\* The values retrieve resolves to; one of them is also a key.
StoredValues == {"v1", "k2"}

\* The reason retrieve(key) rejects with.
RejectionOf(key) == IF key = "k1" THEN "e1" ELSE IF key = "k2" THEN "e2" ELSE "e3"

SourceEntries ==
    {[key |-> k, rejects |-> FALSE, value |-> v] : k \in SourceKeys, v \in StoredValues}
    \cup {[key |-> k, rejects |-> TRUE, value |-> RejectionOf(k)] : k \in SourceKeys}

\* The backing entries of a source: at most MaxKeys entries, no key twice.
Stores ==
    {store \in UNION {[1..n -> SourceEntries] : n \in 0..MaxKeys} :
        \A i, j \in 1..Len(store) : store[i].key = store[j].key => i = j}

\* A filter predicate is the set of the keys or values it accepts.
KeyFilters == {{"k1"}, {"k2", "k3"}}

ValueFilters == {{"v1"}, {"v1", "k2"}}

\* The values handed to keyOfValue.
SoughtValues == {"v1", "k2", "v2"}

\* The pairing with the values taken from the far end.
RetrieveAllPairsReversed(keys, values) ==
    [index \in 1..Len(values) |-> <<keys[index], values[Len(values) + 1 - index]>>]

\* values.map((value, index) => [keys[index], value])
RetrieveAllPairs(keys, values) ==
    [index \in 1..Len(values) |-> <<keys[index], values[index]>>]

RECURSIVE FilterEntries(_, _, _)
\* entries.filter((entry) => filter(entry[at])), at = 1 the key, 2 the value.
FilterEntries(entries, at, filter) ==
    IF entries = <<>> THEN <<>>
    ELSE (IF Head(entries)[at] \in filter THEN <<Head(entries)>> ELSE <<>>)
             \o FilterEntries(Tail(entries), at, filter)

\* .map(([_key, value]) => value)
ValuesOfEntries(entries) == [i \in 1..Len(entries) |-> entries[i][2]]

\* A filterByKey that tests the value of the pair.
filterByKeyOnValue(entries, filter) == ValuesOfEntries(FilterEntries(entries, 2, filter))

\* The continuation of the default filterByKey.
filterByKey(entries, filter) == ValuesOfEntries(FilterEntries(entries, 1, filter))

\* The continuation of the default filterByValue.
filterByValue(entries, filter) == ValuesOfEntries(FilterEntries(entries, 2, filter))

\* entries.findIndex((identified) => identified[0] === value), 1-based;
\* 0 when there is none.
FindIndexOfValue(entries, value) ==
    IF \E i \in 1..Len(entries) : entries[i][1] = value
    THEN CHOOSE i \in 1..Len(entries) :
             /\ entries[i][1] = value
             /\ \A j \in 1..(i - 1) : entries[j][1] # value
    ELSE 0

\* The continuation of a call once retrieveAll has resolved with entries.
Continued(call, entries) ==
    IF call.op = "filterByKey"
    THEN [call EXCEPT !.outcome = "resolved",
                      !.list = filterByKey(entries, call.filter)]
    ELSE IF call.op = "filterByValue"
    THEN [call EXCEPT !.outcome = "resolved",
                      !.list = filterByValue(entries, call.filter)]
    ELSE IF call.op = "keyOfValue"
    THEN IF FindIndexOfValue(entries, call.value) >= 1
         THEN [call EXCEPT !.outcome = "resolved",
                           !.key = entries[FindIndexOfValue(entries, call.value)][1]]
         ELSE [call EXCEPT !.outcome = "rejected", !.error = "404"]
    ELSE [call EXCEPT !.outcome = "resolved", !.pairs = entries]

\* new DataSource({retrieve, keys}) over the given entries
NewDataSource(store) ==
    /\ ~datasource.built
    /\ datasource' = [NoSource EXCEPT !.built = TRUE, !.store = store]
    /\ UNCHANGED <<serviceVars, pathVars, comparisonVars, utilityVars>>

\* A call may start once the source is built and no call is running.
CanCall == datasource.built /\ datasource.phase \in {"idle", "done"}

\* The source at the start of a call: this.retrieveAll() has called keys().
Called(op, value, filter) ==
    [NoSource EXCEPT !.built = TRUE, !.store = datasource.store,
                     !.op = op, !.value = value,
                     !.filter = filter, !.phase = "keys"]

\* source.retrieveAll()
RetrieveAll ==
    /\ CanCall
    /\ datasource' = Called("retrieveAll", "", {})
    /\ UNCHANGED <<serviceVars, pathVars, comparisonVars, utilityVars>>

\* source.filterByKey(filter)
FilterByKey(filter) ==
    /\ CanCall
    /\ datasource' = Called("filterByKey", "", filter)
    /\ UNCHANGED <<serviceVars, pathVars, comparisonVars, utilityVars>>

\* source.filterByValue(filter)
FilterByValue(filter) ==
    /\ CanCall
    /\ datasource' = Called("filterByValue", "", filter)
    /\ UNCHANGED <<serviceVars, pathVars, comparisonVars, utilityVars>>

\* source.keyOfValue(value)
KeyOfValue(value) ==
    /\ CanCall
    /\ datasource' = Called("keyOfValue", value, {})
    /\ UNCHANGED <<serviceVars, pathVars, comparisonVars, utilityVars>>

\* keysFunction() resolves: retrieveFunction(key) is called for every key.
KeysResolved ==
    /\ datasource.phase = "keys"
    /\ datasource' =
         [datasource EXCEPT
            !.phase = "retrieving",
            !.keys = [i \in 1..Len(datasource.store) |-> datasource.store[i].key],
            !.pending = 1..Len(datasource.store),
            !.values = [i \in 1..Len(datasource.store) |-> Undefined]]
    /\ UNCHANGED <<serviceVars, pathVars, comparisonVars, utilityVars>>

\* A catch handler that swallows the rejection.
CatchRetrieveSwallowing(source, i) == [source EXCEPT !.pending = @ \ {i}]

\* .catch((error) => { reject(new Error(..., {cause: error})) }) for the
\* i-th key: rejects the retrieveAll promise, a no-op when it is already
\* rejected, and fulfils with undefined.
CatchRetrieve(source, i) ==
    IF source.all = "pending"
    THEN [source EXCEPT !.pending = @ \ {i},
                        !.all = "rejected",
                        !.cause = source.store[i].value,
                        !.outcome = "rejected",
                        !.error = "Error"]
    ELSE [source EXCEPT !.pending = @ \ {i}]

\* The retrieve promise of the i-th key settles, with what the backing
\* entries hold at that moment.
RetrieveSettled(i) ==
    /\ datasource.phase = "retrieving"
    /\ i \in datasource.pending
    /\ datasource' =
         IF ~datasource.store[i].rejects
         THEN [datasource EXCEPT !.pending = @ \ {i},
                                 !.values[i] = datasource.store[i].value]
         ELSE CatchRetrieve(datasource, i)
    /\ UNCHANGED <<serviceVars, pathVars, comparisonVars, utilityVars>>

\* Promise.all fulfils: resolve(pairs), a no-op when retrieveAll is already
\* rejected; the call's continuation runs on the pairs.
AllSettled ==
    /\ datasource.phase = "retrieving"
    /\ datasource.pending = {}
    /\ datasource' =
         IF datasource.all = "pending"
         THEN Continued([datasource EXCEPT !.phase = "done", !.all = "resolved"],
                        RetrieveAllPairs(datasource.keys, datasource.values))
         ELSE [datasource EXCEPT !.phase = "done"]
    /\ UNCHANGED <<serviceVars, pathVars, comparisonVars, utilityVars>>

SourceNext ==
    \/ \E store \in Stores : NewDataSource(store)
    \/ RetrieveAll
    \/ \E filter \in KeyFilters : FilterByKey(filter)
    \/ \E filter \in ValueFilters : FilterByValue(filter)
    \/ \E value \in SoughtValues : KeyOfValue(value)
    \/ KeysResolved
    \/ \E i \in 1..(MaxKeys + 1) : RetrieveSettled(i)
    \/ AllSettled

SourceSpec == Init /\ [][SourceNext]_vars

\* Another operation removes the i-th key from the backing entries while a
\* retrieveAll lists it: a retrieve of the key that has not read yet rejects.
StoreRemoved(i) ==
    /\ datasource.phase = "retrieving"
    /\ i \in 1..Len(datasource.store)
    /\ ~datasource.store[i].rejects
    /\ datasource' = [datasource EXCEPT
                         !.store[i].rejects = TRUE,
                         !.store[i].value = RejectionOf(datasource.store[i].key)]
    /\ UNCHANGED <<serviceVars, pathVars, comparisonVars, utilityVars>>

\* Another operation stores a new value under the i-th key while a
\* retrieveAll lists it.
StoreUpdated(i, value) ==
    /\ datasource.phase = "retrieving"
    /\ i \in 1..Len(datasource.store)
    /\ ~datasource.store[i].rejects
    /\ datasource.store[i].value # value
    /\ datasource' = [datasource EXCEPT !.store[i].value = value]
    /\ UNCHANGED <<serviceVars, pathVars, comparisonVars, utilityVars>>

\* The calls on the source together with the operations that change its
\* backing entries.
ConcurrentNext ==
    \/ \E store \in Stores : NewDataSource(store)
    \/ RetrieveAll
    \/ \E filter \in KeyFilters : FilterByKey(filter)
    \/ KeysResolved
    \/ \E i \in 1..(MaxKeys + 1) : RetrieveSettled(i)
    \/ AllSettled
    \/ \E i \in 1..(MaxKeys + 1) : StoreRemoved(i)
    \/ \E i \in 1..(MaxKeys + 1), value \in StoredValues : StoreUpdated(i, value)

ConcurrentSpec == Init /\ [][ConcurrentNext]_vars

(***************************************************************************)
(* Properties of the DataSource defaults (SourceSpec).                     *)
(***************************************************************************)
\* A call of op has run to its end.
Finished(op) == datasource.op = op /\ datasource.phase = "done"

\* The positions of the backing entries whose retrieve rejects.
Rejecting == {i \in 1..Len(datasource.store) : datasource.store[i].rejects}

\* The positions of the backing entries whose stored value is the value.
Storing(value) ==
    {i \in 1..Len(datasource.store) :
        ~datasource.store[i].rejects /\ datasource.store[i].value = value}

\* The least position of a non-empty set of positions.
First(positions) == CHOOSE i \in positions : \A j \in positions : i <= j

\* C18: when every retrieve resolves, keyOfValue(v) resolves to the key of
\* the first entry, in key order, whose stored value equals v, and rejects
\* with the 404 marker when no stored value equals v.
C18_KeyOfFirstStoredValue ==
    (Finished("keyOfValue") /\ Rejecting = {}) =>
        IF Storing(datasource.value) # {}
        THEN /\ datasource.outcome = "resolved"
             /\ datasource.key = datasource.store[First(Storing(datasource.value))].key
        ELSE /\ datasource.outcome = "rejected"
             /\ datasource.error = "404"

ByHand(Keeps(_)) ==
    [i \in 1..Len(SelectSeq(datasource.store, Keeps)) |->
        SelectSeq(datasource.store, Keeps)[i].value]

KeepsKey(entry) == entry.key \in datasource.filter

KeepsValue(entry) == entry.value \in datasource.filter

\* C20: when every retrieve resolves, filterByKey(p) resolves to the values
\* of exactly the keys p accepts and filterByValue(p) to exactly the values
\* p accepts, values only and in key order.
C20_FiltersAgreeWithIteration ==
    /\ (Finished("filterByKey") /\ Rejecting = {}) =>
          /\ datasource.outcome = "resolved"
          /\ datasource.list = ByHand(KeepsKey)
    /\ (Finished("filterByValue") /\ Rejecting = {}) =>
          /\ datasource.outcome = "resolved"
          /\ datasource.list = ByHand(KeepsValue)

\* filterByKey has finished on two keys whose retrieves resolved, with a
\* predicate that drops the first key and keeps the second.
C20_Witness ==
    /\ Finished("filterByKey")
    /\ Len(datasource.store) = 2
    /\ Rejecting = {}
    /\ datasource.store[1].key \notin datasource.filter
    /\ datasource.store[2].key \in datasource.filter
    /\ datasource.list = <<datasource.store[2].value>>

(***************************************************************************)
(* new DataSource(source) (module datasource): checkSource, the defaults   *)
(* of the constructor, and the unsupported create, update and remove.      *)
(* What a member of the source record holds is one of five kinds.          *)
(***************************************************************************)
MaxSupplied == 1

RequiredMethods == <<"retrieve", "keys">>

OptionalMethods ==
    {"retrieveAll", "create", "update", "remove", "filterByKey", "filterByValue",
     "keyOfValue"}

Operations == OptionalMethods \cup {"retrieve", "keys"}

\* absent: no such member (undefined); null; function; value: a truthy
\* non-function such as 42; falsy: a falsy non-function such as 0.
MemberKinds == {"absent", "null", "function", "value", "falsy"}

\* source[method] == null
IsNullish(kind) == kind \in {"absent", "null"}

\* source[method] instanceof Function
IsFunctionKind(kind) == kind = "function"

\* The truthiness of a member, as `source.method || ...` tests it.
IsTruthy(kind) == kind \in {"function", "value"}

\* The records handed to the constructor: any retrieve and keys, and at most
\* MaxSupplied of the other members present.
SourceRecords ==
    {source \in [Operations -> MemberKinds] :
        Cardinality({method \in OptionalMethods : source[method] # "absent"})
            <= MaxSupplied}

\* The default parameter value of the constructor: {}.
EmptySource == [method \in Operations |-> "absent"]

RECURSIVE checkSourceFrom(_, _)
\* ["retrieve", "keys"].forEach(...) from the i-th method on: the name of
\* the first method the check throws for, "" when it throws for none.
checkSourceFrom(source, i) ==
    IF i > Len(RequiredMethods) THEN ""
    ELSE IF IsNullish(source[RequiredMethods[i]])
            \/ ~IsFunctionKind(source[RequiredMethods[i]])
         THEN RequiredMethods[i]
         ELSE checkSourceFrom(source, i + 1)

checkSource(source) == checkSourceFrom(source, 1)

\* What a rejected call of an unsupported method gives back.
createUnsupportedMethodThrowing(methodName) ==
    [result |-> "threw", error |-> "UnsupportedError", named |-> methodName]

\* () => Promise.reject(new UnsupportedError(`Method ${methodName} not supported`))
createUnsupportedMethod(methodName) ==
    [result |-> "rejected", error |-> "UnsupportedError", named |-> methodName]

\* The default method names of createUnsupportedCreateFunction,
\* createUnsupportedUpdateFunction and createUnsupportedDeleteFunction.
UnsupportedName(method) ==
    IF method = "create" THEN "create"
    ELSE IF method = "update" THEN "update"
    ELSE "remove"

\* this[method] after the constructor: the member of the source for retrieve
\* and keys, and `source[method] || default` for the others.
Exposed(source) ==
    [method \in Operations |->
        IF method \in {"retrieve", "keys"} THEN source[method]
        ELSE IF IsTruthy(source[method]) THEN source[method]
        ELSE "default"]

\* typeof this[method] === "function"
IsExposedFunction(exposed) == exposed \in {"function", "default"}

\* The outcome of the constructor on a source record.
Construct(given, source) ==
    IF checkSource(source) # ""
    THEN [NoConstructed EXCEPT !.done = TRUE, !.given = given, !.source = source,
                               !.threw = TRUE, !.error = "TypeError",
                               !.named = checkSource(source)]
    ELSE [NoConstructed EXCEPT !.done = TRUE, !.given = given, !.source = source,
                               !.exposed = Exposed(source)]

\* new DataSource(source)
NewDataSourceOf(source) ==
    /\ ~constructed.done
    /\ constructed' = Construct(TRUE, source)
    /\ UNCHANGED <<serviceVars, pathVars, comparisonVars, sourceVars, memoryVars,
                   builderVars, flagVars, compileVars>>

\* new DataSource()
NewDataSourceOfNothing ==
    /\ ~constructed.done
    /\ constructed' = Construct(FALSE, EmptySource)
    /\ UNCHANGED <<serviceVars, pathVars, comparisonVars, sourceVars, memoryVars,
                   builderVars, flagVars, compileVars>>

\* The argument lists of a call.
CallArguments == {<<>>, <<"k1">>, <<"k1", "v1">>}

\* this[method](...arguments) for create, update or remove: the default
\* rejects, a supplied function runs, and calling a non-function throws.
CallOf(method, arguments) ==
    LET settled ==
            IF constructed.exposed[method] = "default"
            THEN createUnsupportedMethod(UnsupportedName(method))
            ELSE IF constructed.exposed[method] = "function"
            THEN [result |-> "supplied", error |-> "", named |-> ""]
            ELSE [result |-> "threw", error |-> "TypeError", named |-> ""] IN
    [op |-> method, arguments |-> arguments, result |-> settled.result,
     error |-> settled.error, named |-> settled.named,
     retrieveCalls |-> 0, keysCalls |-> 0]

\* source.create(...), source.update(...) or source.remove(...)
CallUnsupported(method, arguments) ==
    /\ constructed.done
    /\ ~constructed.threw
    /\ constructed.call.op = "none"
    /\ constructed' = [constructed EXCEPT !.call = CallOf(method, arguments)]
    /\ UNCHANGED <<serviceVars, pathVars, comparisonVars, sourceVars, memoryVars,
                   builderVars, flagVars, compileVars>>

ConstructNext ==
    \/ \E source \in SourceRecords : NewDataSourceOf(source)
    \/ NewDataSourceOfNothing
    \/ \E method \in {"create", "update", "remove"}, arguments \in CallArguments :
           CallUnsupported(method, arguments)

ConstructSpec == Init /\ [][ConstructNext]_vars

\* C21: the constructor throws an error naming the method exactly when
\* retrieve (checked first) or keys is absent or not a function, with a
\* TypeError when no argument is given; in every other case it succeeds
\* and all nine operations of the object are functions.
C21_ConstructionValidatesAndExposes ==
    constructed.done =>
        IF ~IsFunctionKind(constructed.source["retrieve"])
        THEN /\ constructed.threw
             /\ constructed.named = "retrieve"
             /\ ~constructed.given => constructed.error = "TypeError"
        ELSE IF ~IsFunctionKind(constructed.source["keys"])
        THEN constructed.threw /\ constructed.named = "keys"
        ELSE /\ ~constructed.threw
             /\ \A method \in Operations :
                    IsExposedFunction(constructed.exposed[method])

\* C22: when the record has no create, update or remove, a call of it is a
\* rejected result with the unsupported-operation error naming the method,
\* never a synchronous throw, and never calls retrieve or keys.
C22_MissingMutatorsAreUnsupported ==
    (/\ constructed.call.op \in {"create", "update", "remove"}
     /\ constructed.source[constructed.call.op] = "absent") =>
        /\ constructed.call.result = "rejected"
        /\ constructed.call.error = "UnsupportedError"
        /\ constructed.call.named = constructed.call.op
        /\ constructed.call.retrieveCalls = 0
        /\ constructed.call.keysCalls = 0

\* remove("k1") has been called on a source built from retrieve and keys only.
C22_Witness ==
    /\ constructed.call.op = "remove"
    /\ constructed.call.arguments = <<"k1">>
    /\ constructed.source = [EmptySource EXCEPT !["retrieve"] = "function",
                                                !["keys"] = "function"]
    /\ constructed.call.result = "rejected"
    /\ constructed.call.named = "remove"

(***************************************************************************)
(* new MemoryDataSource(parameters) (module datasource).  The constructor  *)
(* begins with `const content = Map();`: Map is called without new, which  *)
(* throws a TypeError, so the statements after it (the closures retrieve,  *)
(* update, create and remove, the super call and the initial entries) are  *)
(* modelled as what they would do on a content, but no reachable state     *)
(* holds an object.                                                        *)
(***************************************************************************)
MaxEntries == 2

MemoryKeys == {"k1", "k2"}

\* The values of the model: "null" is null, "bad" a value an injected
\* validator rejects.
MemoryValues == {"v1", "bad", "null"}

\* A Map in insertion order: a sequence of [key, value] pairs, no key twice.
Contents ==
    {content \in UNION {[1..n -> MemoryKeys \X MemoryValues] : n \in 0..MaxEntries} :
        \A i, j \in 1..Len(content) : content[i][1] = content[j][1] => i = j}

\* The parameter records: readOnly true, false or absent; idGenerator,
\* validValue and keys a function or absent; entries a Map or absent.
MemoryParameters ==
    [readOnly : {"absent", "true", "false"},
     idGenerator : {"absent", "function"},
     validValue : {"absent", "function"},
     keys : {"absent", "function"},
     hasEntries : BOOLEAN,
     entries : Contents]

\* Map(): the Map constructor called without new throws a TypeError.
MapCall == [threw |-> TRUE, error |-> "TypeError"]

\* content.has(id)
ContentHas(content, id) == \E i \in 1..Len(content) : content[i][1] = id

\* content.set(id, value)
ContentSet(content, id, value) ==
    IF ContentHas(content, id)
    THEN [i \in 1..Len(content) |->
             IF content[i][1] = id THEN <<id, value>> ELSE content[i]]
    ELSE Append(content, <<id, value>>)

\* content.delete(id)
ContentDelete(content, id) == SelectSeq(content, LAMBDA pair : pair[1] # id)

\* parameters.validValue || ((value) => value != null)
valid(parameters, value) ==
    IF parameters.validValue = "function" THEN value = "v1" ELSE value # "null"

\* The statements of the constructor after the content is made.
ConstructOn(given, parameters) ==
    LET made == [NoMemory EXCEPT !.attempted = TRUE, !.given = given,
                                 !.parameters = parameters]
        thrown == [made EXCEPT !.threw = TRUE, !.error = "TypeError"] IN
    IF ~given THEN thrown                            \* parameters.readOnly
    ELSE IF parameters.keys # "function" THEN thrown \* checkSource: keys
    ELSE IF ~parameters.hasEntries \/ parameters.entries = <<>>
    THEN [made EXCEPT !.object = TRUE]
    ELSE IF parameters.readOnly # "true" THEN thrown \* this.validValue(value)
    ELSE IF \E i \in 1..Len(parameters.entries) :
                ~valid(parameters, parameters.entries[i][2])
    THEN thrown
    ELSE [made EXCEPT !.object = TRUE, !.content = parameters.entries]

\* The constructor: the content first, then the rest.
MemoryConstruct(given, parameters) ==
    IF MapCall.threw
    THEN [NoMemory EXCEPT !.attempted = TRUE, !.given = given,
                          !.parameters = parameters,
                          !.threw = TRUE, !.error = MapCall.error]
    ELSE ConstructOn(given, parameters)

\* What a call gives when there is no object to call it on.
NoObject == [result |-> "none", value |-> "", error |-> "", named |-> "", content |-> <<>>]

\* A settled call and the content after it.
Settled(result, value, error, named, content) ==
    [result |-> result, value |-> value, error |-> error, named |-> named,
     content |-> content]

\* source.update(id, value)
UpdateOutcome(source, id, value) ==
    IF ~source.object THEN NoObject
    ELSE IF source.parameters.readOnly = "true"
    THEN Settled("rejected", "", "UnsupportedError", "update", source.content)
    ELSE IF ~ContentHas(source.content, id)
    THEN Settled("resolved", "false", "", "", source.content)
    ELSE IF valid(source.parameters, value)
    THEN Settled("resolved", "true", "", "", ContentSet(source.content, id, value))
    ELSE Settled("rejected", "", "TypeError", "", source.content)

\* source.remove(id)
RemoveOutcome(source, id) ==
    IF ~source.object THEN NoObject
    ELSE IF source.parameters.readOnly = "true"
    THEN Settled("rejected", "", "UnsupportedError", "remove", source.content)
    ELSE IF ~ContentHas(source.content, id)
    THEN Settled("resolved", "false", "", "", source.content)
    ELSE Settled("resolved", "true", "", "", ContentDelete(source.content, id))

\* source.create(value): valid(value) is a boolean, and `.then` of a boolean
\* is not a function, so the executor throws and the promise rejects.
CreateOutcome(source, value) ==
    IF ~source.object THEN NoObject
    ELSE IF source.parameters.readOnly = "true"
    THEN Settled("rejected", "", "UnsupportedError", "create", source.content)
    ELSE Settled("rejected", "", "TypeError", "", source.content)

\* source.retrieve(id)
RetrieveOutcome(source, id) ==
    IF ~source.object THEN NoObject
    ELSE IF ContentHas(source.content, id)
    THEN Settled("resolved",
                 source.content[CHOOSE i \in 1..Len(source.content) :
                                    source.content[i][1] = id][2],
                 "", "", source.content)
    ELSE Settled("rejected", "", "undefined", "", source.content)

\* new MemoryDataSource(parameters)
NewMemoryDataSource(parameters) ==
    /\ ~memory.attempted
    /\ memory' = MemoryConstruct(TRUE, parameters)
    /\ UNCHANGED <<serviceVars, pathVars, comparisonVars, sourceVars, constructVars,
                   builderVars, flagVars, compileVars>>

\* new MemoryDataSource()
NewMemoryDataSourceOfNothing ==
    /\ ~memory.attempted
    /\ memory' = MemoryConstruct(FALSE, CHOOSE parameters \in MemoryParameters :
                                            /\ parameters.readOnly = "absent"
                                            /\ parameters.idGenerator = "absent"
                                            /\ parameters.validValue = "absent"
                                            /\ parameters.keys = "absent"
                                            /\ ~parameters.hasEntries
                                            /\ parameters.entries = <<>>)
    /\ UNCHANGED <<serviceVars, pathVars, comparisonVars, sourceVars, constructVars,
                   builderVars, flagVars, compileVars>>

MemoryNext ==
    \/ \E parameters \in MemoryParameters : NewMemoryDataSource(parameters)
    \/ NewMemoryDataSourceOfNothing

MemorySpec == Init /\ [][MemoryNext]_vars

(***************************************************************************)
(* Properties of the memory data source (MemorySpec).                      *)
(***************************************************************************)
\* The construction was asked for a source that can be changed, with a keys
\* function and no initial entries.
AskedMutable ==
    /\ memory.attempted
    /\ memory.given
    /\ memory.parameters.readOnly # "true"
    /\ memory.parameters.keys = "function"
    /\ ~memory.parameters.hasEntries

\* C23: on a memory data source constructed with no identifier generator,
\* every create(value) fails with the unsupported-operation error for
\* create and leaves the stored entries as they were.
C23_CreateWithoutGeneratorUnsupported ==
    (AskedMutable /\ memory.parameters.idGenerator = "absent") =>
        \A value \in MemoryValues :
            /\ CreateOutcome(memory, value).result = "rejected"
            /\ CreateOutcome(memory, value).error = "UnsupportedError"
            /\ CreateOutcome(memory, value).content = memory.content

\* The value stored under a key of a content, "" when there is none.
StoredUnder(content, id) ==
    IF ContentHas(content, id)
    THEN content[CHOOSE i \in 1..Len(content) : content[i][1] = id][2]
    ELSE ""

\* The keys of a content.
KeysOf(content) == {content[i][1] : i \in 1..Len(content)}

\* Every entry under a key other than id is the same in both contents.
SameElsewhere(before, after, id) ==
    \A other \in MemoryKeys \ {id} :
        /\ ContentHas(before, other) <=> ContentHas(after, other)
        /\ StoredUnder(before, other) = StoredUnder(after, other)

\* C24: update(k, v) and remove(k) resolve to false and leave the store
\* alone when k is absent; when k is present they resolve to true, after
\* which k holds v (update) or is absent (remove); entries under other keys
\* are unchanged and update adds no key.
C24_UpdateRemoveByPresence ==
    AskedMutable =>
        \A id \in MemoryKeys, value \in {v \in MemoryValues : valid(memory.parameters, v)} :
            LET updated == UpdateOutcome(memory, id, value)
                removed == RemoveOutcome(memory, id) IN
            /\ updated.result = "resolved"
            /\ removed.result = "resolved"
            /\ SameElsewhere(memory.content, updated.content, id)
            /\ SameElsewhere(memory.content, removed.content, id)
            /\ KeysOf(updated.content) \subseteq KeysOf(memory.content)
            /\ IF ContentHas(memory.content, id)
               THEN /\ updated.value = "true"
                    /\ StoredUnder(updated.content, id) = value
                    /\ removed.value = "true"
                    /\ ~ContentHas(removed.content, id)
               ELSE /\ updated.value = "false"
                    /\ updated.content = memory.content
                    /\ removed.value = "false"
                    /\ removed.content = memory.content

\* C25: with an injected validator, create(v) and update(k, v) of a value
\* the validator rejects fail, whether or not k is present, and leave the
\* store as it was; a value it accepts is not rejected as invalid.
C25_InvalidValuesFailWithoutChange ==
    (AskedMutable /\ memory.parameters.validValue = "function") =>
        \A id \in MemoryKeys, value \in MemoryValues :
            LET created == CreateOutcome(memory, value)
                updated == UpdateOutcome(memory, id, value) IN
            IF valid(memory.parameters, value)
            THEN /\ created.result # "none"
                 /\ updated.result # "none"
                 /\ created.error # "TypeError"
                 /\ updated.error # "TypeError"
            ELSE /\ created.result = "rejected"
                 /\ updated.result = "rejected"
                 /\ created.content = memory.content
                 /\ updated.content = memory.content

\* The mutations two callers may issue at once.
Mutations ==
    {<<"update", id, value>> : id \in MemoryKeys, value \in {"v1"}}
    \cup {<<"remove", id, "">> : id \in MemoryKeys}

\* The outcome of one mutation on a source.
MutationOutcome(source, call) ==
    IF call[1] = "update" THEN UpdateOutcome(source, call[2], call[3])
    ELSE RemoveOutcome(source, call[2])

\* The content after two mutations, one after the other.
InSequence(source, first, second) ==
    MutationOutcome([source EXCEPT !.content = MutationOutcome(source, first).content],
                    second).content

\* C26: concurrently issued calls each take effect on the store in one
\* step: each issued mutation settles, a read between them sees the store
\* before or after it, and the store after both is the one a sequential
\* order of the two gives.
C26_MutationsAreAtomic ==
    AskedMutable =>
        \A first, second \in Mutations, id \in MemoryKeys :
            /\ MutationOutcome(memory, first).result # "none"
            /\ MutationOutcome(memory, second).result # "none"
            /\ RetrieveOutcome(memory, id).result # "none"
            /\ InSequence(memory, first, second)
                   \in {InSequence(memory, first, second),
                        InSequence(memory, second, first)}

(***************************************************************************)
(* RegExpBuilder (regexp_tools.mjs): addSegment, getGroupCount, build and  *)
(* createRegExpGroupStart.  A source is the sequence of its characters.    *)
(***************************************************************************)
MaxSegments == 3

\* The calls of addSegment: a source with the names of its groups.  The
\* sources are "(?<a>x)", "(?<a>)", "(?<b>x)", "(?<a>)(?<b>x)" and "x"; "1"
\* is no valid group name.
SegmentInputs ==
    {[source |-> <<"(", "?", "<", "a", ">", "x", ")">>, namedGroups |-> <<<<"a">>>>],
     [source |-> <<"(", "?", "<", "a", ">", ")">>, namedGroups |-> <<<<"a">>>>],
     [source |-> <<"(", "?", "<", "b", ">", "x", ")">>, namedGroups |-> <<<<"b">>>>],
     [source |-> <<"(", "?", "<", "a", ">", ")", "(", "?", "<", "b", ">", "x", ")">>,
      namedGroups |-> <<<<"a">>, <<"b">>>>],
     [source |-> <<"x">>, namedGroups |-> <<>>],
     [source |-> <<"x">>, namedGroups |-> <<<<"1">>>>]}

BuilderGroupNames == {<<"a">>, <<"b">>}

NameStartChars == {"a", "b", "e", "i", "l", "m", "o", "p", "r", "t", "x", "_"}

NameChars == NameStartChars \cup {"0", "1", "2", "3", "4", "5", "6", "7", "8", "9"}

\* typeof groupName === "string" && /^[a-zA-Z_][a-zA-Z0-9_]*$/.test(groupName)
validGroupName(groupName) ==
    /\ Len(groupName) >= 1
    /\ groupName[1] \in NameStartChars
    /\ \A i \in 1..Len(groupName) : groupName[i] \in NameChars

\* `${groupIndex ? groupIndex : ""}` for an index below ten.
IndexSuffix(groupIndex) ==
    IF groupIndex = 0 THEN <<>>
    ELSE <<<<"0", "1", "2", "3", "4", "5", "6", "7", "8", "9">>[groupIndex + 1]>>

\* createRegExpGroupStart(groupName, groupIndex) for a string groupName.
createRegExpGroupStart(groupName, groupIndex) ==
    IF groupName = <<"[">> THEN FlagsOk(<<"[">>)
    ELSE IF validGroupName(groupName)
    THEN FlagsOk(<<"(", "?", "<">> \o groupName \o IndexSuffix(groupIndex) \o <<">">>)
    ELSE FlagsThrow("RangeError")

\* The first position at which pattern occurs in str, 0 when it does not.
IndexOf(str, pattern) ==
    IF \E i \in 1..Len(str) : StartsWith(str, i, pattern)
    THEN CHOOSE i \in 1..Len(str) :
             /\ StartsWith(str, i, pattern)
             /\ \A j \in 1..(i - 1) : ~StartsWith(str, j, pattern)
    ELSE 0

\* str.replace(pattern, replacement) with a string pattern: the first
\* occurrence only.
StringReplace(str, pattern, replacement) ==
    IF IndexOf(str, pattern) = 0 THEN str
    ELSE SubSeq(str, 1, IndexOf(str, pattern) - 1) \o replacement
             \o SubSeq(str, IndexOf(str, pattern) + Len(pattern), Len(str))

\* this.#groupCounts.has(groupName) ? this.#groupCounts.get(groupName) : 0
getGroupCount(groupCounts, groupName) ==
    IF \E i \in 1..Len(groupCounts) : groupCounts[i].key = groupName
    THEN groupCounts[CHOOSE i \in 1..Len(groupCounts) :
                         groupCounts[i].key = groupName].value
    ELSE 0

\* this.#groupCounts.set(groupName, value)
SetGroupCount(groupCounts, groupName, value) ==
    IF \E i \in 1..Len(groupCounts) : groupCounts[i].key = groupName
    THEN [i \in 1..Len(groupCounts) |->
             IF groupCounts[i].key = groupName
             THEN [key |-> groupName, value |-> value]
             ELSE groupCounts[i]]
    ELSE Append(groupCounts, [key |-> groupName, value |-> value])

\* result.replace(`(?<${groupName}>)`, `(?<${groupName}${groupCount ? groupCount : ""}>)`)
RenamedGroup(result, groupName, groupCount) ==
    StringReplace(result,
                  <<"(", "?", "<">> \o groupName \o <<">", ")">>,
                  <<"(", "?", "<">> \o groupName \o IndexSuffix(groupCount) \o <<">", ")">>)

RECURSIVE addSegmentReduce(_, _, _)
\* namedGroups.reduce(...) of addSegment: the source so far and the group
\* counts so far; a name that is not valid throws a SyntaxError.
addSegmentReduce(result, groupCounts, namedGroups) ==
    IF namedGroups = <<>>
    THEN [threw |-> FALSE, error |-> "", source |-> result, groupCounts |-> groupCounts]
    ELSE IF ~validGroupName(Head(namedGroups))
    THEN [threw |-> TRUE, error |-> "SyntaxError", source |-> result,
          groupCounts |-> groupCounts]
    ELSE addSegmentReduce(
             RenamedGroup(result, Head(namedGroups),
                          getGroupCount(groupCounts, Head(namedGroups))),
             SetGroupCount(groupCounts, Head(namedGroups),
                           getGroupCount(groupCounts, Head(namedGroups)) + 1),
             Tail(namedGroups))

\* new RegExpBuilder()
NewRegExpBuilder ==
    /\ ~builder.built
    /\ builder' = [NoBuilder EXCEPT !.built = TRUE]
    /\ UNCHANGED <<serviceVars, pathVars, comparisonVars, sourceVars, constructVars,
                   memoryVars, flagVars, compileVars>>

\* builder.addSegment(source, namedGroups)
AddSegment(source, namedGroups) ==
    /\ builder.built
    /\ Len(builder.segments) < MaxSegments
    /\ \E reduced \in {addSegmentReduce(source, builder.groupCounts, namedGroups)} :
          builder' =
            IF reduced.threw
            THEN [builder EXCEPT !.op = "addSegment", !.threw = TRUE,
                                 !.error = reduced.error,
                                 !.groupCounts = reduced.groupCounts]
            ELSE [builder EXCEPT !.op = "addSegment", !.threw = FALSE, !.error = "",
                                 !.groupCounts = reduced.groupCounts,
                                 !.segments = Append(@, reduced.source),
                                 !.declared = Append(@, namedGroups)]
    /\ UNCHANGED <<serviceVars, pathVars, comparisonVars, sourceVars, constructVars,
                   memoryVars, flagVars, compileVars>>

\* builder.build(): the reducer reads `source`, which is declared nowhere,
\* so the first segment throws a ReferenceError.
Build ==
    /\ builder.built
    /\ builder' = [builder EXCEPT !.op = "build",
                                  !.threw = (builder.segments # <<>>),
                                  !.error = IF builder.segments # <<>>
                                            THEN "ReferenceError" ELSE ""]
    /\ UNCHANGED <<serviceVars, pathVars, comparisonVars, sourceVars, constructVars,
                   memoryVars, flagVars, compileVars>>

BuilderNext ==
    \/ NewRegExpBuilder
    \/ \E input \in SegmentInputs : AddSegment(input.source, input.namedGroups)
    \/ Build

BuilderSpec == Init /\ [][BuilderNext]_vars

\* The number of segments among the first n that declare the group name.
RECURSIVE OccurrencesBefore(_, _)
OccurrencesBefore(groupName, n) ==
    IF n = 0 THEN 0
    ELSE OccurrencesBefore(groupName, n - 1)
         + Cardinality({i \in 1..Len(builder.declared[n]) :
                            builder.declared[n][i] = groupName})

\* The source holds the group opener of the k-th occurrence of the name.
HoldsGroup(source, groupName, k) ==
    IndexOf(source, createRegExpGroupStart(groupName, k).value) > 0

\* The n-th added segment declares the name.
Declares(n, groupName) ==
    \E i \in 1..Len(builder.declared[n]) : builder.declared[n][i] = groupName

\* C27: the first occurrence of a group name keeps the plain name and the
\* k-th later occurrence is opened as createRegExpGroupStart(name, k) gives
\* it (name1, name2, ...), so no two segments hold a group of the same
\* identifier, and getGroupCount(name) is the number of occurrences added
\* so far.
C27_GroupNamesSuffixedByOccurrence ==
    builder.built =>
        \A groupName \in BuilderGroupNames :
            /\ getGroupCount(builder.groupCounts, groupName)
                   = OccurrencesBefore(groupName, Len(builder.declared))
            /\ \A n \in 1..Len(builder.segments) :
                   (/\ Declares(n, groupName)
                    /\ \E k \in 0..MaxSegments :
                           HoldsGroup(builder.segments[n], groupName, k))
                   => HoldsGroup(builder.segments[n], groupName,
                                 OccurrencesBefore(groupName, n - 1))
            /\ \A n, m \in 1..Len(builder.segments), k \in 0..MaxSegments :
                   (/\ Declares(n, groupName)
                    /\ Declares(m, groupName)
                    /\ HoldsGroup(builder.segments[n], groupName, k)
                    /\ HoldsGroup(builder.segments[m], groupName, k))
                   => n = m

(***************************************************************************)
(* addFlag (regexp_tools.mjs) as a call on flag strings.                   *)
(***************************************************************************)
MaxFlags == 2

\* The characters of the flag strings: "x" is no flag.
FlagChars == {"g", "i", "u", "v", "x"}

FlagStrings == UNION {[1..n -> FlagChars] : n \in 0..MaxFlags}

\* const result = addFlag(flags, addedFlags)
AddFlag(flags, addedFlags) ==
    /\ ~flagged.called
    /\ \E result \in {addFlag(flags, addedFlags)} :
          flagged' = [called |-> TRUE, flags |-> flags, addedFlags |-> addedFlags,
                      threw |-> result.threw, error |-> result.error,
                      value |-> result.value]
    /\ UNCHANGED <<serviceVars, pathVars, comparisonVars, sourceVars, constructVars,
                   memoryVars, builderVars, compileVars>>

FlagNext == \E flags \in FlagStrings, addedFlags \in FlagStrings : AddFlag(flags, addedFlags)

FlagSpec == Init /\ [][FlagNext]_vars

\* The number of times the flag occurs in the flag string.
FlagCount(flags, flag) == Cardinality({i \in 1..Len(flags) : flags[i] = flag})

\* C28: for flags that do not already hold both u and v, addFlag fails
\* whenever the flags and the added flags together hold both, so no returned
\* flag string holds both; a flag that is already present is not added again.
C28_UnicodeFlagsNeverMixed ==
    (/\ flagged.called
     /\ ~flagged.threw
     /\ ~(InStr(flagged.flags, "u") /\ InStr(flagged.flags, "v"))) =>
        /\ ~(InStr(flagged.value, "u") /\ InStr(flagged.value, "v"))
        /\ \A flag \in FlagChars :
               FlagCount(flagged.value, flag)
                   <= IF FlagCount(flagged.flags, flag) > 1
                      THEN FlagCount(flagged.flags, flag) ELSE 1

(***************************************************************************)
(* createLiteralOrVariableRegex (path.mjs) and the module counters         *)
(* literalCount and paramCount.  A returned expression is given by the     *)
(* openers of its four named groups; the rest of its source is constant.   *)
(***************************************************************************)
MaxCompilations == 4

\* The groupPrefix arguments: "" and "x".
GroupPrefixes == {<<>>, <<"x">>}

sLiteral == <<"l", "i", "t", "e", "r", "a", "l">>

sParam == <<"p", "a", "r", "a", "m">>

\* createLiteralRegexp(groupName, groupIndex): literalRegex with its group
\* opener replaced.
createLiteralRegexp(groupName, groupIndex) ==
    createRegExpGroupStart(groupName, groupIndex).value

\* createParameterRegexp(groupName, groupIndex): pathParameterRegex with the
\* openers of param, opt_param and all_param replaced.
createParameterRegexp(groupName, groupIndex) ==
    [param |-> createRegExpGroupStart(groupName, groupIndex).value,
     opt_param |-> createRegExpGroupStart(<<"o", "p", "t", "_">> \o groupName,
                                          groupIndex).value,
     all_param |-> createRegExpGroupStart(<<"a", "l", "l", "_">> \o groupName,
                                          groupIndex).value]

\* createLiteralOrVariableRegex(groupPrefix) with the counters at the given
\* values.
createLiteralOrVariableRegex(groupPrefix, literalCount, paramCount) ==
    [groupPrefix |-> groupPrefix,
     literal |-> createLiteralRegexp(groupPrefix \o sLiteral, literalCount),
     parameter |-> createParameterRegexp(groupPrefix \o sParam, paramCount),
     flags |-> <<"g", "u">>]

\* export const literalOrVariableRegex = createLiteralOrVariableRegex();
literalOrVariableRegex == createLiteralOrVariableRegex(<<>>, 0, 0)

\* const regex = createLiteralOrVariableRegex(groupPrefix)
CreateLiteralOrVariableRegex(groupPrefix) ==
    /\ Len(pathModule.returned) < MaxCompilations
    /\ pathModule' =
         [pathModule EXCEPT
            !.op = "createLiteralOrVariableRegex",
            !.threw = FALSE,
            !.error = "",
            !.returned = Append(@, createLiteralOrVariableRegex(
                                       groupPrefix, pathModule.literalCount,
                                       pathModule.paramCount)),
            !.literalCount = @ + 1,
            !.paramCount = @ + 1]
    /\ UNCHANGED <<serviceVars, pathVars, comparisonVars, sourceVars, constructVars,
                   memoryVars, builderVars, flagVars>>

\* parsePath(pathString): validPath throws before a segment is compiled, so
\* the counters stay.
ParsePathOnModule(pathString) ==
    /\ pathModule.op # "parsePath"
    /\ pathModule' = [pathModule EXCEPT !.op = "parsePath",
                                        !.threw = parsePath(pathString).threw,
                                        !.error = parsePath(pathString).error]
    /\ UNCHANGED <<serviceVars, pathVars, comparisonVars, sourceVars, constructVars,
                   memoryVars, builderVars, flagVars>>

CompileNext ==
    \/ \E groupPrefix \in GroupPrefixes : CreateLiteralOrVariableRegex(groupPrefix)
    \/ \E pathString \in PathStrings : ParsePathOnModule(pathString)

CompileSpec == Init /\ [][CompileNext]_vars

\* C29: the expression createLiteralOrVariableRegex returns does not depend
\* on the calls made before: every returned expression is the one the first
\* call of the process gave for that prefix, with the groups literal and
\* param, and two calls with the same prefix return the same expression.
C29_CompilationsDoNotInterfere ==
    \A i, j \in 1..Len(pathModule.returned) :
        /\ pathModule.returned[i].groupPrefix = <<>>
               => pathModule.returned[i] = literalOrVariableRegex
        /\ pathModule.returned[i].groupPrefix = pathModule.returned[j].groupPrefix
               => pathModule.returned[i] = pathModule.returned[j]

=============================================================================
